---- MODULE Spec2Model ----
(***************************************************************************)
(* Credit ledger, generation-request lifecycle and weekly report of the    *)
(* image-generation backend (src/functions/main.py).                       *)
(*                                                                         *)
(* The document store is modelled by its collections: users (credits and   *)
(* the update version Firestore keeps per document), the per-user          *)
(* transactions sub-collection, generationRequests, and the catalog        *)
(* collections styles/colors/sizes.  Every createGenerationRequest         *)
(* invocation is a handler r with its own program counter and locals; the  *)
(* handlers interleave at the points where the code talks to the store or  *)
(* to the simulator.  A @firestore.transactional unit is a read step and a *)
(* commit step: the commit is refused when the user document changed since *)
(* the read, the unit is then run again, and after MaxAttempts refusals    *)
(* the wrapper raises.                                                     *)
(***************************************************************************)
EXTENDS Integers, Sequences, FiniteSets, TLC

\* ------------------------------------------------------------------ bounds
NumHandlers == 2      \* createGenerationRequest invocations in one behaviour
MaxAttempts == 2      \* commit attempts of one transactional unit
NumWriters == 1       \* createGenerationRequest invocations next to a getUserCredits call
                      \* or a report run
NumRequests == 2      \* generation requests in the store when the report runs start
NumRuns == 2          \* scheduleWeeklyReport invocations in one behaviour
TicksPerDay == 2      \* clock ticks in one calendar day

\* timedelta(days=7)
DAYS == 7

\* config.py: AnomalyThresholds (the ratio 0.5 is the fraction 1/2)
SUCCESS_RATE_DROP_RATIO == [num |-> 1, den |-> 2]
USAGE_SPIKE_MULTIPLIER == 3
MIN_SAMPLES_FOR_ANOMALY == 10
SIGNIFICANT_FAILURE_RATE == 20
FAILURE_RATE_SPIKE_MULTIPLIER == 2

\* ------------------------------------------------------- values and inputs
Handlers == 1..NumHandlers
Users == {"u1", "u2"}                  \* documents of the users collection
Missing == ""                          \* an absent (or empty, falsy) field

\* the users collection as seeded: u1 can pay for a 3-credit and a 1-credit
\* request but not for two 3-credit ones, u2 for one 1-credit request only
SeedCredits == [u \in Users |-> IF u = "u1" THEN 4 ELSE 1]

\* python Optional: None is <<>>, a value x is <<x>>
None == << >>
Some(x) == << x >>
Get(o) == o[1]

\* config.py: ImageModels
ImageModels == {"model-a", "model-b"}

\* config.py: AIModelsConfig.PLACEHOLDER_URLS
PLACEHOLDER_URLS == [m \in ImageModels |->
                        IF m = "model-a" THEN "placeholder-a" ELSE "placeholder-b"]

\* the catalog collections of the store, as the tests seed them
\* (a sizes document without a "credits" field is skipped by the loader)
stylesCollection == {"anime"}
colorsCollection == {"vibrant"}
sizesCollection == [s \in {"512x512", "1024x1024", "draft"} |->
                      CASE s = "512x512"   -> [hasCredits |-> TRUE, credits |-> 1]
                        [] s = "1024x1024" -> [hasCredits |-> TRUE, credits |-> 3]
                        [] OTHER           -> [hasCredits |-> FALSE, credits |-> 0]]

\* request bodies a client can send (userId, model, style, color, size, and
\* whatever else the client puts into the JSON object; a further field that
\* is absent is Missing, or 0 for a number):
\* bodies the validation accepts, for a known or an unknown user, one of
\* them also carrying the fields the server writes, and the bodies with one
\* field missing or not in the catalog
Body(u, m, st, c, sz) ==
    [userId |-> u, model |-> m, style |-> st, color |-> c, size |-> sz,
     cost |-> 0, status |-> Missing, createdAt |-> 0, imageUrl |-> Missing]
ForgedBody ==
    [Body("u1", "model-b", "anime", "vibrant", "512x512") EXCEPT
        !.cost = 9, !.status = "completed", !.createdAt = 9, !.imageUrl = "client-url"]
Bodies ==
    {Body(u, "model-a", "anime", "vibrant", sz) :
        u \in Users, sz \in {"512x512", "1024x1024"}}
    \cup {ForgedBody}
    \cup {Body("ghost", "model-a", "anime", "vibrant", "512x512")}
    \cup {Body(u, "model-a", "anime", "vibrant", "512x512") : u \in {Missing}}
    \cup {Body("u1", m, "anime", "vibrant", "512x512") : m \in {Missing, "model-x"}}
    \cup {Body("u1", "model-a", st, "vibrant", "512x512") : st \in {Missing, "cubist"}}
    \cup {Body("u1", "model-a", "anime", c, "512x512") : c \in {Missing, "beige"}}
    \cup {Body("u1", "model-a", "anime", "vibrant", sz) : sz \in {Missing, "draft", "2048x2048"}}
    \cup {Body("ghost", "model-x", "cubist", "beige", "draft")}

\* request bodies that are not a JSON object: the JSON value null, and text
\* that is not JSON
UnparsedBodies == {"null", "invalid json"}

NoData == Body(Missing, Missing, Missing, Missing, Missing)
NoSnapshot == [exists |-> FALSE, credits |-> 0, version |-> 0]

\* ------------------------------------------------------------------- state
VARIABLES
    credits,             \* users/{u}.credits
    version,             \* users/{u} update version (write conflicts)
    transactions,        \* users/{u}/transactions, in commit order
    generationRequests,  \* generationRequests/{id}; the id is the handler's
    clock,               \* the time of the last commit the store applied
    STYLES, COLORS, SIZES,   \* module-level catalog cache
    pc,                  \* position of each handler
    data,                \* handler local: parsed body
    credit_cost,         \* handler local
    snapshot,            \* handler local: user_snapshot of the open unit
    attempts,            \* handler local: commit attempts of the open unit
    generation_result,   \* handler local: simulator result
    response,            \* the HTTP response each handler returned
    initialCredits,      \* the balances the users were created with
    catalog,             \* the styles, colors and sizes collections
    q_pc,                \* position of the getUserCredits call
    user_id,             \* getUserCredits local: the userId argument
    q_current_credits,   \* getUserCredits local: current_credits
    credits_response,    \* the HTTP response of the getUserCredits call
    reports,             \* reports/{report_id}
    report_pc,           \* position of each scheduleWeeklyReport run
    now,                 \* run local
    previous_report_data,    \* run local
    requests_ref,        \* run local: the ids streamed, in stream order
    report               \* run local

storeVars == << credits, version, transactions, generationRequests, clock >>
cacheVars == << STYLES, COLORS, SIZES >>
queryVars == << q_pc, user_id, q_current_credits, credits_response >>
reportVars == << reports, report_pc, now, previous_report_data, requests_ref, report >>
otherHandlerVars == << queryVars, reportVars >>
localVars == << data, credit_cost, snapshot, attempts, generation_result >>
vars == << credits, version, transactions, generationRequests, clock, STYLES, COLORS,
           SIZES, pc, data, credit_cost, snapshot, attempts, generation_result,
           response, initialCredits, catalog, otherHandlerVars >>

\* ------------------------------------------------------------------ catalog
\* the catalog collections as seeded, after an edit (a style added and the
\* price of a size raised), and while the store cannot be read
SeededCatalog ==
    [readable |-> TRUE,
     styles |-> stylesCollection, colors |-> colorsCollection, sizes |-> sizesCollection]
EditedCatalog ==
    [readable |-> TRUE,
     styles |-> stylesCollection \cup {"cubist"},
     colors |-> colorsCollection,
     sizes |-> [sizesCollection EXCEPT !["512x512"].credits = @ + 1]]
UnreadableCatalog == [SeededCatalog EXCEPT !.readable = FALSE]

\* get_config_data: the three collections as read, or the empty sets of the
\* except branch when a read of the store raises
get_config_data ==
    IF catalog.readable
       THEN [styles |-> catalog.styles,
             colors |-> catalog.colors,
             sizes  |-> [s \in {x \in DOMAIN catalog.sizes : catalog.sizes[x].hasCredits}
                           |-> catalog.sizes[s].credits]]
       ELSE [styles |-> {}, colors |-> {}, sizes |-> [s \in {} |-> 0]]

\* (mutant: the catalog is read again on every call)
config_loaded_Reload ==
    [styles |-> Some(get_config_data.styles),
     colors |-> Some(get_config_data.colors),
     sizes  |-> Some(get_config_data.sizes)]

\* ensure_config_loaded: the cache after the call
config_loaded ==
    IF STYLES = None \/ COLORS = None \/ SIZES = None
       THEN [styles |-> Some(get_config_data.styles),
             colors |-> Some(get_config_data.colors),
             sizes  |-> Some(get_config_data.sizes)]
       ELSE [styles |-> STYLES, colors |-> COLORS, sizes |-> SIZES]

\* ---------------------------------------------------------------- responses
Response(status, message) ==
    [status |-> status, message |-> message, generationRequestId |-> 0,
     deductedCredits |-> 0, imageUrl |-> ""]

\* the first failing check of the validation, "" when the body passes
ValidationError(d, cfg) ==
    IF Missing \in {d.userId, d.model, d.style, d.color, d.size}
         THEN "Missing required fields"
    ELSE IF d.style \notin Get(cfg.styles) THEN "Invalid style"
    ELSE IF d.color \notin Get(cfg.colors) THEN "Invalid color"
    ELSE IF d.size \notin DOMAIN Get(cfg.sizes) THEN "Invalid size"
    ELSE IF d.model \notin ImageModels THEN "Invalid model"
    ELSE ""

\* the report a run starts from
EmptyReport ==
    [totalRequests |-> 0, totalCreditsSpent |-> 0, totalCreditsRefunded |-> 0,
     successRate |-> [num |-> 0, den |-> 1],
     byModel |-> << >>, byStyle |-> << >>, bySize |-> << >>,
     anomalies |-> << >>,
     generatedAt |-> 0]

\* the users as created, no call in progress
InitHandlers ==
    /\ initialCredits = SeedCredits
    /\ credits = initialCredits
    /\ version = [u \in Users |-> 0]
    /\ transactions = [u \in Users |-> << >>]
    /\ STYLES = None /\ COLORS = None /\ SIZES = None
    /\ pc = [r \in Handlers |-> "start"]
    /\ data = [r \in Handlers |-> NoData]
    /\ credit_cost = [r \in Handlers |-> 0]
    /\ snapshot = [r \in Handlers |-> NoSnapshot]
    /\ attempts = [r \in Handlers |-> 0]
    /\ generation_result = [r \in Handlers |-> None]
    /\ response = << >>
    /\ q_pc = "start"
    /\ user_id = Missing
    /\ q_current_credits = 0
    /\ credits_response = None

\* the catalog as seeded and readable, the users as created, no call in
\* progress
InitCalls ==
    /\ catalog = SeededCatalog
    /\ InitHandlers

\* no report run has started
InitRuns ==
    /\ report_pc = [k \in 1..NumRuns |-> "start"]
    /\ now = [k \in 1..NumRuns |-> 0]
    /\ previous_report_data = [k \in 1..NumRuns |-> None]
    /\ requests_ref = [k \in 1..NumRuns |-> << >>]
    /\ report = [k \in 1..NumRuns |-> EmptyReport]

\* the users as created, no call in progress, no report yet
InitRest ==
    /\ InitCalls
    /\ reports = << >>
    /\ InitRuns

Init ==
    /\ generationRequests = << >>
    /\ clock = 0
    /\ InitRest

\* a handler returns resp; data, credit_cost and generation_result keep the
\* values the handler had
Return(r, resp) ==
    /\ pc' = [pc EXCEPT ![r] = "done"]
    /\ response' = response @@ (r :> resp)
    /\ snapshot' = [snapshot EXCEPT ![r] = NoSnapshot]
    /\ attempts' = [attempts EXCEPT ![r] = 0]
    /\ UNCHANGED << data, credit_cost, generation_result >>

\* an exception leaves the handler: the call ends without a response of the
\* handler, the locals are gone
Raise(r) ==
    /\ pc' = [pc EXCEPT ![r] = "done"]
    /\ UNCHANGED << data, credit_cost, snapshot, attempts, generation_result, response >>

\* req.get_json() on a body that is not a JSON object: the request of the
\* functions runtime raises on text that is not JSON, the
\* FirebaseFunctionsAdapter reads with silent=True and returns None for it;
\* the JSON value null is None for both
get_json(text, silent) ==
    IF text = "invalid json" /\ ~silent THEN "raise" ELSE "None"

\* createGenerationRequest, main.py:153-166 for a body that is not a JSON
\* object: the except branch answers 400; data.get on None raises
\* AttributeError outside any try block
on_unparsed_body(r, parsed) ==
    IF parsed = "raise"
       THEN Return(r, Response(400, "Invalid JSON in request body."))
       ELSE Raise(r)

\* createGenerationRequest, up to the start of the deduction unit:
\* parse, validate, load the catalog, price, look the user up
createGenerationRequest(r) ==
    /\ pc[r] = "start"
    /\ \/ \E body \in Bodies :
            LET cfg == config_loaded
                err == ValidationError(body, cfg)
            IN  /\ IF Missing \in {body.userId, body.model, body.style,
                                   body.color, body.size}
                      THEN UNCHANGED cacheVars
                      ELSE /\ STYLES' = cfg.styles
                           /\ COLORS' = cfg.colors
                           /\ SIZES' = cfg.sizes
                /\ IF err # ""
                      THEN Return(r, Response(400, err))
                   ELSE IF body.userId \notin Users
                      THEN Return(r, Response(404, "User not found."))
                   ELSE /\ pc' = [pc EXCEPT ![r] = "deduct_read"]
                        /\ data' = [data EXCEPT ![r] = body]
                        /\ credit_cost' = [credit_cost EXCEPT ![r] = Get(cfg.sizes)[body.size]]
                        /\ UNCHANGED << snapshot, attempts, generation_result, response >>
       \/ \E text \in UnparsedBodies : \E silent \in BOOLEAN :
            /\ on_unparsed_body(r, get_json(text, silent))
            /\ UNCHANGED cacheVars
    /\ UNCHANGED << storeVars, initialCredits, catalog, otherHandlerVars >>

\* ----------------------------------------------------- transactional units
\* (mutant: the user is read outside the unit, a stale read goes unnoticed)
Conflict_Never(r) == FALSE

\* (mutant: a write to any user document refuses the commit)
Conflict_Global(r) ==
    \E u \in Users :
        version[u] # (IF u = data[r].userId THEN snapshot[r].version ELSE 0)

\* the commit of an open unit is refused when the user document was written
\* after the unit read it
Conflict(r) == version[data[r].userId] # snapshot[r].version

\* user_ref.get(transaction=transaction)
ReadUser(u) ==
    IF u \in DOMAIN credits
       THEN [exists |-> TRUE, credits |-> credits[u], version |-> version[u]]
       ELSE NoSnapshot

\* (mutant: a balance equal to the cost is refused)
InsufficientCredits_OffByOne(current_credits, cost) == current_credits <= cost

\* (mutant: the check only asks for a positive balance)
InsufficientCredits_Positive(current_credits, cost) == current_credits <= 0

\* the balance check of _atomic_deduct_and_generate
InsufficientCredits(current_credits, cost) == current_credits < cost

\* firestore.SERVER_TIMESTAMP: the time of the commit that writes it; every
\* commit is later than the one before
SERVER_TIMESTAMP == clock + 1

\* (mutant: the increment is applied on top of a set of the new balance)
Increment_Twice(u, n) == [credits EXCEPT ![u] = @ + n + n]

\* firestore.Increment(n) applied to users/{u}.credits
Increment(u, n) == [credits EXCEPT ![u] = @ + n]

\* (mutant: the refund entry keeps the type of the entry it was copied from)
TransactionLog_CopiedType(type, cost, generation_id) ==
    [type |-> "deduction", credits |-> cost, generationRequestId |-> generation_id,
     timestamp |-> SERVER_TIMESTAMP]

\* (mutant: the refund entry is logged without the request id)
TransactionLog_RefundNoId(type, cost, generation_id) ==
    [type |-> type, credits |-> cost,
     generationRequestId |-> IF type = "refund" THEN 0 ELSE generation_id,
     timestamp |-> SERVER_TIMESTAMP]

\* (mutant: a refund is logged as a negative amount)
TransactionLog_Signed(type, cost, generation_id) ==
    [type |-> type, credits |-> IF type = "refund" THEN 0 - cost ELSE cost,
     generationRequestId |-> generation_id, timestamp |-> SERVER_TIMESTAMP]

\* the Deduction / Refund documents appended to users/{u}/transactions
TransactionLog(type, cost, generation_id) ==
    [type |-> type, credits |-> cost, generationRequestId |-> generation_id,
     timestamp |-> SERVER_TIMESTAMP]

\* (mutant: the request stores the balance left instead of the cost)
GenerationData_WrongCost(d, cost) ==
    [d EXCEPT !.cost = cost + 1, !.status = "pending", !.createdAt = SERVER_TIMESTAMP]

\* (mutant: the request is created already completed)
GenerationData_Terminal(d, cost) ==
    [d EXCEPT !.cost = cost, !.status = "completed", !.createdAt = SERVER_TIMESTAMP]

\* generation_data of _atomic_deduct_and_generate:
\* {**data, "cost": ..., "status": "pending", "createdAt": ...}
GenerationData(d, cost) ==
    [d EXCEPT !.cost = cost, !.status = "pending", !.createdAt = SERVER_TIMESTAMP]

\* (mutant: the generic except branch reuses the failure-branch message)
UnexpectedError_ClaimsRefund == Response(500, "AI generation failed, credits refunded.")

\* createGenerationRequest: except Exception
UnexpectedError == Response(500, "An unexpected internal error occurred.")

\* (mutant: a refused commit is not run again)
RetryOrRaise_GiveUp(r, again) ==
    /\ pc' = [pc EXCEPT ![r] = "done"]
    /\ attempts' = [attempts EXCEPT ![r] = 0]
    /\ response' = response @@ (r :> UnexpectedError)
    /\ snapshot' = [snapshot EXCEPT ![r] = NoSnapshot]
    /\ UNCHANGED << data, credit_cost, generation_result >>

\* a refused commit: run the unit again, or give up after MaxAttempts
\* (attempts counts the refused commits of the handler's open unit)
RetryOrRaise(r, again) ==
    /\ IF attempts[r] + 1 >= MaxAttempts
          THEN /\ pc' = [pc EXCEPT ![r] = "done"]
               /\ attempts' = [attempts EXCEPT ![r] = 0]
               /\ response' = response @@ (r :> UnexpectedError)
               /\ snapshot' = [snapshot EXCEPT ![r] = NoSnapshot]
               /\ UNCHANGED << data, credit_cost, generation_result >>
          ELSE /\ pc' = [pc EXCEPT ![r] = again]
               /\ attempts' = [attempts EXCEPT ![r] = @ + 1]
               /\ UNCHANGED << data, credit_cost, snapshot, generation_result, response >>

\* (mutant: the balance is decremented before the check, outside the unit)
RaiseInsufficientCredits_AfterWrite(r) ==
    /\ Return(r, Response(400, "Insufficient credits."))
    /\ credits' = [credits EXCEPT ![data[r].userId] = @ - credit_cost[r]]
    /\ UNCHANGED << version, transactions, generationRequests, clock >>

\* HttpsError(FAILED_PRECONDITION) raised inside the unit, before any write,
\* and mapped to a response by the handler
RaiseInsufficientCredits(r) ==
    /\ Return(r, Response(400, "Insufficient credits."))
    /\ UNCHANGED storeVars

\* _atomic_deduct_and_generate, the body up to the balance check
atomic_deduct_read(r) ==
    /\ pc[r] = "deduct_read"
    /\ LET user_snapshot == ReadUser(data[r].userId)
       IN  IF ~user_snapshot.exists
              THEN /\ Return(r, Response(404, "User not found."))
                   /\ UNCHANGED storeVars
           ELSE IF InsufficientCredits(user_snapshot.credits, credit_cost[r])
              THEN RaiseInsufficientCredits(r)
           ELSE /\ snapshot' = [snapshot EXCEPT ![r] = user_snapshot]
                /\ pc' = [pc EXCEPT ![r] = "deduct_commit"]
                /\ UNCHANGED << data, credit_cost, attempts, generation_result, response >>
                /\ UNCHANGED storeVars
    /\ UNCHANGED << cacheVars, initialCredits, catalog, otherHandlerVars >>

\* (mutant: the log entry is written outside the unit and lost)
DeductWrites_NoLog(r) ==
    LET u == data[r].userId
    IN  /\ credits' = Increment(u, 0 - credit_cost[r])
        /\ version' = [version EXCEPT ![u] = @ + 1]
        /\ generationRequests' =
              generationRequests @@ (r :> GenerationData(data[r], credit_cost[r]))
        /\ clock' = SERVER_TIMESTAMP
        /\ UNCHANGED transactions

\* (mutant: the writes are held back until after the simulator call)
DeductWrites_Deferred(r) == UNCHANGED storeVars

\* the writes of _atomic_deduct_and_generate: balance, request, log entry
DeductWrites(r) ==
    LET u == data[r].userId
    IN  /\ credits' = Increment(u, 0 - credit_cost[r])
        /\ version' = [version EXCEPT ![u] = @ + 1]
        /\ generationRequests' =
              generationRequests @@ (r :> GenerationData(data[r], credit_cost[r]))
        /\ transactions' = [transactions EXCEPT ![u] =
              Append(@, TransactionLog("deduction", credit_cost[r], r))]
        /\ clock' = SERVER_TIMESTAMP

\* (mutant: the writes of a refused commit are not rolled back)
atomic_deduct_commit_NoRollback(r) ==
    /\ pc[r] = "deduct_commit"
    /\ DeductWrites(r)
    /\ IF Conflict(r)
              THEN RetryOrRaise(r, "deduct_read")
              ELSE /\ pc' = [pc EXCEPT ![r] = "simulate"]
                   /\ snapshot' = [snapshot EXCEPT ![r] = NoSnapshot]
                   /\ attempts' = [attempts EXCEPT ![r] = 0]
                   /\ UNCHANGED << data, credit_cost, generation_result, response >>
    /\ UNCHANGED << cacheVars, initialCredits, catalog, otherHandlerVars >>

\* _atomic_deduct_and_generate, the three writes and their commit
atomic_deduct_commit(r) ==
    /\ pc[r] = "deduct_commit"
    /\ IF Conflict(r)
              THEN /\ RetryOrRaise(r, "deduct_read")
                   /\ UNCHANGED storeVars
              ELSE /\ DeductWrites(r)
                   /\ pc' = [pc EXCEPT ![r] = "simulate"]
                   /\ snapshot' = [snapshot EXCEPT ![r] = NoSnapshot]
                   /\ attempts' = [attempts EXCEPT ![r] = 0]
                   /\ UNCHANGED << data, credit_cost, generation_result, response >>
    /\ UNCHANGED << cacheVars, initialCredits, catalog, otherHandlerVars >>

\* (mutant: the failure branch marks the request failed without the refund)
on_generation_result_NoRefund(success) ==
    IF success THEN "update_completed" ELSE "update_failed"

\* createGenerationRequest: the branch taken on generation_result["success"]
on_generation_result(success) ==
    IF success THEN "update_completed" ELSE "refund_read"

\* AIChat(model).create(): succeeds with the model's placeholder or fails
AIChat_create(r) ==
    /\ pc[r] = "simulate"
    /\ \E success \in BOOLEAN :
         /\ generation_result' = [generation_result EXCEPT ![r] =
               Some([success |-> success,
                     imageUrl |-> IF success THEN PLACEHOLDER_URLS[data[r].model] ELSE ""])]
         /\ pc' = [pc EXCEPT ![r] = on_generation_result(success)]
         /\ UNCHANGED attempts
    /\ UNCHANGED << storeVars, cacheVars, data, credit_cost, snapshot,
                    response, initialCredits, catalog, otherHandlerVars >>

\* createGenerationRequest, the success branch
update_completed(r) ==
    /\ pc[r] = "update_completed"
    /\ generationRequests' = [generationRequests EXCEPT
          ![r].status = "completed",
          ![r].imageUrl = Get(generation_result[r]).imageUrl]
    /\ Return(r, [status |-> 200, message |-> "", generationRequestId |-> r,
                  deductedCredits |-> credit_cost[r],
                  imageUrl |-> Get(generation_result[r]).imageUrl])
    /\ UNCHANGED << credits, version, transactions, clock, cacheVars, initialCredits, catalog,
                    otherHandlerVars >>

\* _refund_credits: refund_transaction, the read
refund_transaction_read(r) ==
    /\ pc[r] = "refund_read"
    /\ LET user_snapshot == ReadUser(data[r].userId)
       IN  IF ~user_snapshot.exists
              THEN Return(r, UnexpectedError)
              ELSE /\ snapshot' = [snapshot EXCEPT ![r] = user_snapshot]
                   /\ pc' = [pc EXCEPT ![r] = "refund_commit"]
                   /\ UNCHANGED << data, credit_cost, attempts, generation_result, response >>
    /\ UNCHANGED << storeVars, cacheVars, initialCredits, catalog, otherHandlerVars >>

\* (mutant: the refund gives back one credit whatever the request cost)
refund_amount_Unit(r) == 1

\* the amount createGenerationRequest hands to _refund_credits
refund_amount(r) == credit_cost[r]

\* the writes of refund_transaction: balance and log entry
RefundWrites(r) ==
    LET u == data[r].userId
    IN  /\ credits' = Increment(u, refund_amount(r))
        /\ version' = [version EXCEPT ![u] = @ + 1]
        /\ transactions' = [transactions EXCEPT ![u] =
              Append(@, TransactionLog("refund", refund_amount(r), r))]
        /\ clock' = SERVER_TIMESTAMP
        /\ UNCHANGED generationRequests

\* _refund_credits: refund_transaction, the two writes and their commit
refund_transaction_commit(r) ==
    /\ pc[r] = "refund_commit"
    /\ IF Conflict(r)
              THEN /\ RetryOrRaise(r, "refund_read")
                   /\ UNCHANGED storeVars
              ELSE /\ RefundWrites(r)
                   /\ pc' = [pc EXCEPT ![r] = "update_failed"]
                   /\ snapshot' = [snapshot EXCEPT ![r] = NoSnapshot]
                   /\ attempts' = [attempts EXCEPT ![r] = 0]
                   /\ UNCHANGED << data, credit_cost, generation_result, response >>
    /\ UNCHANGED << cacheVars, initialCredits, catalog, otherHandlerVars >>

\* createGenerationRequest, the failure branch after the refund
update_failed(r) ==
    /\ pc[r] = "update_failed"
    /\ generationRequests' = [generationRequests EXCEPT ![r].status = "failed"]
    /\ Return(r, Response(500, "AI generation failed, credits refunded."))
    /\ UNCHANGED << credits, version, transactions, clock, cacheVars, initialCredits, catalog,
                    otherHandlerVars >>

Next ==
    \E r \in Handlers :
        \/ createGenerationRequest(r)
        \/ atomic_deduct_read(r)
        \/ atomic_deduct_commit(r)
        \/ AIChat_create(r)
        \/ update_completed(r)
        \/ refund_transaction_read(r)
        \/ refund_transaction_commit(r)
        \/ update_failed(r)

Spec == Init /\ [][Next]_vars

\* the catalog collections are edited while the process runs
catalog_edit ==
    /\ catalog = SeededCatalog
    /\ catalog' = EditedCatalog
    /\ UNCHANGED << storeVars, cacheVars, localVars, pc, response, initialCredits,
                    otherHandlerVars >>

NextCatalog ==
    \/ Next
    \/ catalog_edit

\* createGenerationRequest handlers of one process, and edits of the catalog
SpecCatalog == Init /\ [][NextCatalog]_vars

\* the store becomes readable again
catalog_restore ==
    /\ ~catalog.readable
    /\ catalog' = [catalog EXCEPT !.readable = TRUE]
    /\ UNCHANGED << storeVars, cacheVars, localVars, pc, response, initialCredits,
                    otherHandlerVars >>

\* the process starts while the store cannot be read
InitOutage ==
    /\ generationRequests = << >>
    /\ clock = 0
    /\ catalog = UnreadableCatalog
    /\ InitHandlers
    /\ reports = << >>
    /\ InitRuns

NextOutage ==
    \/ Next
    \/ catalog_restore

\* createGenerationRequest handlers of one process that starts during an
\* outage of the store
SpecOutage == InitOutage /\ [][NextOutage]_vars

\* ----------------------------------------------------------- getUserCredits
\* the userId query parameter: a known user, an unknown one, none
UserIdArgs == Users \cup {"ghost", Missing}

\* datetime.isoformat() of a stored timestamp
isoformat(t) == << "iso", t >>

\* the documents of users/{u}/transactions, keyed by their position in the
\* order they were written
TransactionDocs(u) ==
    {[id |-> i, doc |-> transactions[u][i]] : i \in DOMAIN transactions[u]}

\* d comes before e in a query ordered by timestamp descending (documents
\* with equal timestamps are ordered by key, in the same direction)
Newer(d, e) ==
    \/ d.doc.timestamp > e.doc.timestamp
    \/ (d.doc.timestamp = e.doc.timestamp /\ d.id > e.id)

\* (mutant: the query returns the documents in the order they were written)
order_by_timestamp_ASCENDING(docs) ==
    [k \in 1..Cardinality(docs) |->
        CHOOSE d \in docs : Cardinality({e \in docs : Newer(d, e)}) = k - 1]

\* .order_by("timestamp", direction=firestore.Query.DESCENDING).stream()
order_by_timestamp_DESCENDING(docs) ==
    [k \in 1..Cardinality(docs) |->
        CHOOSE d \in docs : Cardinality({e \in docs : Newer(e, d)}) = k - 1]

\* transaction_info of one streamed document
transaction_info(trans) ==
    [id |-> trans.id,
     type |-> trans.doc.type,
     credits |-> trans.doc.credits,
     generationRequestId |-> trans.doc.generationRequestId,
     timestamp |-> isoformat(trans.doc.timestamp)]

CreditsResponse(status, message) ==
    [status |-> status, message |-> message, currentCredits |-> 0,
     transactions |-> << >>]

\* getUserCredits: the argument check and the read of the user document
getUserCredits_user(arg) ==
    /\ q_pc = "start"
    /\ user_id' = arg
    /\ IF arg = Missing
          THEN /\ credits_response' =
                     Some(CreditsResponse(400, "userId parameter is required."))
               /\ q_pc' = "done"
               /\ UNCHANGED q_current_credits
       ELSE IF ~ReadUser(arg).exists
          THEN /\ credits_response' = Some(CreditsResponse(404, "User not found."))
               /\ q_pc' = "done"
               /\ UNCHANGED q_current_credits
       ELSE /\ q_current_credits' = ReadUser(arg).credits
            /\ q_pc' = "query"
            /\ UNCHANGED credits_response
    /\ UNCHANGED << storeVars, cacheVars, localVars, pc, response, initialCredits, catalog,
                    reportVars >>

\* getUserCredits: the transactions query and the response
getUserCredits_transactions ==
    /\ q_pc = "query"
    /\ LET transactions_ref == order_by_timestamp_DESCENDING(TransactionDocs(user_id))
       IN  credits_response' =
              Some([status |-> 200, message |-> "",
                    currentCredits |-> q_current_credits,
                    transactions |-> [k \in DOMAIN transactions_ref |->
                                        transaction_info(transactions_ref[k])]])
    /\ q_pc' = "done"
    /\ UNCHANGED << user_id, q_current_credits >>
    /\ UNCHANGED << storeVars, cacheVars, localVars, pc, response, initialCredits, catalog,
                    reportVars >>

NextCredits ==
    \/ \E r \in 1..NumWriters :
          \/ createGenerationRequest(r)
          \/ atomic_deduct_read(r)
          \/ atomic_deduct_commit(r)
          \/ AIChat_create(r)
          \/ update_completed(r)
          \/ refund_transaction_read(r)
          \/ refund_transaction_commit(r)
          \/ update_failed(r)
    \/ \E arg \in UserIdArgs : getUserCredits_user(arg)
    \/ getUserCredits_transactions

\* createGenerationRequest handlers next to one getUserCredits call
SpecCredits == Init /\ [][NextCredits]_vars

\* ------------------------------------------------------ scheduleWeeklyReport
Runs == 1..NumRuns

\* timedelta(days=7), in clock ticks
timedelta_days == DAYS * TicksPerDay

\* the clock when the first run is scheduled: the last tick of a day, so
\* that a run started after the next commit falls on the next date
StartTime == timedelta_days + TicksPerDay + (TicksPerDay - 1)

\* requests of earlier calls, of a user whose ledger is not followed here:
\* created more than seven days, exactly seven days, or one tick before
\* StartTime, in any status; the ones created exactly seven days before are
\* for model-b/1024x1024, the others for model-a/512x512
PastIds == 101..(100 + NumRequests)
PastRequest(i) ==
    LET c == i % 3
        st == (i \div 3) % 3
        size == IF c = 1 THEN "1024x1024" ELSE "512x512"
        model == IF c = 1 THEN "model-b" ELSE "model-a"
        status == CASE st = 0 -> "pending" [] st = 1 -> "completed" [] OTHER -> "failed"
    IN  [userId |-> "u0", model |-> model, style |-> "anime", color |-> "vibrant",
         size |-> size, cost |-> sizesCollection[size].credits,
         status |-> status,
         imageUrl |-> IF status = "completed" THEN PLACEHOLDER_URLS[model] ELSE "",
         createdAt |-> CASE c = 0 -> StartTime - timedelta_days - 1
                         [] c = 1 -> StartTime - timedelta_days
                         [] OTHER -> StartTime - 1]


\* the reading of a percentage n / d * 100, as a fraction in lowest terms
RECURSIVE GCD(_, _)
GCD(a, b) == IF b = 0 THEN a ELSE GCD(b, a % b)

\* (mutant: the ratio is not scaled to a percentage)
Percent_Unscaled(n, d) ==
    [num |-> n \div GCD(n, d), den |-> d \div GCD(n, d)]

\* (n / d) * 100
Percent(n, d) ==
    [num |-> (100 * n) \div GCD(100 * n, d), den |-> d \div GCD(100 * n, d)]

\* report[key][value] of a first occurrence
NewItem == [total |-> 0, completed |-> 0, failed |-> 0,
            failureRate |-> [num |-> 0, den |-> 1]]

\* (mutant: a Pending request is left out of the map)
Counted_Settled(group, value, status) ==
    LET item == IF value \in DOMAIN group THEN group[value] ELSE NewItem
    IN  (value :> [item EXCEPT
                     !.total = IF status = "pending" THEN @ ELSE @ + 1,
                     !.completed = IF status = "completed" THEN @ + 1 ELSE @,
                     !.failed = IF status = "failed" THEN @ + 1 ELSE @])
        @@ group

\* report[key] after one request with the given value and status
Counted(group, value, status) ==
    LET item == IF value \in DOMAIN group THEN group[value] ELSE NewItem
    IN  (value :> [item EXCEPT
                     !.total = @ + 1,
                     !.completed = IF status = "completed" THEN @ + 1 ELSE @,
                     !.failed = IF status = "failed" THEN @ + 1 ELSE @])
        @@ group

\* (mutant: credits of Pending requests are counted as spent)
aggregate_request_AllSpent(acc, doc) ==
    [report |-> [acc.report EXCEPT
        !.totalRequests = @ + 1,
        !.totalCreditsSpent = IF doc.status # "failed" THEN @ + doc.cost ELSE @,
        !.totalCreditsRefunded = IF doc.status = "failed" THEN @ + doc.cost ELSE @,
        !.byModel = Counted(@, doc.model, doc.status),
        !.byStyle = Counted(@, doc.style, doc.status),
        !.bySize = Counted(@, doc.size, doc.status)],
     successful_requests |->
        acc.successful_requests + (IF doc.status = "completed" THEN 1 ELSE 0)]

\* (mutant: the credit totals keep the cost of the last request only)
aggregate_request_Overwrite(acc, doc) ==
    [report |-> [acc.report EXCEPT
        !.totalRequests = @ + 1,
        !.totalCreditsSpent = IF doc.status = "completed" THEN doc.cost ELSE @,
        !.totalCreditsRefunded = IF doc.status = "failed" THEN doc.cost ELSE @,
        !.byModel = Counted(@, doc.model, doc.status),
        !.byStyle = Counted(@, doc.style, doc.status),
        !.bySize = Counted(@, doc.size, doc.status)],
     successful_requests |->
        acc.successful_requests + (IF doc.status = "completed" THEN 1 ELSE 0)]

\* scheduleWeeklyReport: the body of the loop over requests_ref
aggregate_request(acc, doc) ==
    [report |-> [acc.report EXCEPT
        !.totalRequests = @ + 1,
        !.totalCreditsSpent = IF doc.status = "completed" THEN @ + doc.cost ELSE @,
        !.totalCreditsRefunded = IF doc.status = "failed" THEN @ + doc.cost ELSE @,
        !.byModel = Counted(@, doc.model, doc.status),
        !.byStyle = Counted(@, doc.style, doc.status),
        !.bySize = Counted(@, doc.size, doc.status)],
     successful_requests |->
        acc.successful_requests + (IF doc.status = "completed" THEN 1 ELSE 0)]

\* scheduleWeeklyReport: the loop, over the documents in stream order
RECURSIVE aggregate(_, _)
aggregate(acc, docs) ==
    IF docs = << >> THEN acc
    ELSE aggregate(aggregate_request(acc, Head(docs)), Tail(docs))

\* the failure rates of one map
failure_rates(group) ==
    [v \in DOMAIN group |->
        IF group[v].total > 0
           THEN [group[v] EXCEPT !.failureRate = Percent(group[v].failed, group[v].total)]
           ELSE group[v]]

\* scheduleWeeklyReport: success and failure rates
calculate_rates(acc) ==
    IF acc.report.totalRequests > 0
       THEN [acc.report EXCEPT
               !.successRate = Percent(acc.successful_requests, acc.report.totalRequests),
               !.byModel = failure_rates(@),
               !.byStyle = failure_rates(@),
               !.bySize = failure_rates(@)]
       ELSE acc.report

\* db.collection("generationRequests").where("createdAt", ">=", one_week_ago)
where_createdAt_ge(one_week_ago) ==
    {id \in DOMAIN generationRequests : generationRequests[id].createdAt >= one_week_ago}

\* the orders in which a query can stream the documents with ids S
Streams(S) ==
    {st \in [1..Cardinality(S) -> S] : \A i, j \in DOMAIN st : i # j => st[i] # st[j]}

\* (mutant: the query is ordered by generatedAt ASCENDING)
latest_report_Oldest ==
    IF DOMAIN reports = {} THEN None
    ELSE Some(reports[CHOOSE id \in DOMAIN reports :
                 \A other \in DOMAIN reports :
                     reports[other].generatedAt >= reports[id].generatedAt])

\* the latest document of reports by generatedAt, None when there is none
latest_report ==
    IF DOMAIN reports = {} THEN None
    ELSE Some(reports[CHOOSE id \in DOMAIN reports :
                 \A other \in DOMAIN reports :
                     reports[other].generatedAt <= reports[id].generatedAt])

\* (mutant: the id carries the time of day as well)
report_id_Time(t) == t

\* report_id: report_YYYY-MM-DD of now
report_id(t) == t \div TicksPerDay

\* ---------------------------------------------------------- _detect_anomalies
\* comparisons of rates, which are fractions with a positive denominator
Rat(n) == [num |-> n, den |-> 1]
Times(a, b) == [num |-> a.num * b.num, den |-> a.den * b.den]
Less(a, b) == a.num * b.den < b.num * a.den

\* f"{rate:.2f}": the rate rounded to hundredths, as a number of hundredths
\* (no rate of the runs checked here lies halfway between two hundredths)
format_2f(rate) == (2 * 100 * rate.num + rate.den) \div (2 * rate.den)

\* an entry of the anomalies list: the text of the message and the values
\* formatted into it
Message(text, key, item_name, current, previous) ==
    [text |-> text, key |-> key, item_name |-> item_name,
     current |-> current, previous |-> previous]

NoBaselineMessage ==
    Message("No previous report available for comparison", "", "", 0, 0)
NoAnomaliesMessage ==
    Message("No significant anomalies detected this week.", "", "", 0, 0)

\* (mutant: a rate of exactly half the previous one counts as a drop)
success_rate_drop_AtHalf(current_metrics, previous_metrics) ==
    LET prev_success_rate == previous_metrics.successRate
        current_success_rate == current_metrics.successRate
    IN  IF /\ Less(Rat(0), prev_success_rate)
           /\ ~Less(Times(prev_success_rate, SUCCESS_RATE_DROP_RATIO),
                    current_success_rate)
           THEN << Message("Drastic drop in success rate", "", "",
                           format_2f(current_success_rate),
                           format_2f(prev_success_rate)) >>
           ELSE << >>

\* Anomaly 1: significant drop in overall success rate
success_rate_drop(current_metrics, previous_metrics) ==
    LET prev_success_rate == previous_metrics.successRate
        current_success_rate == current_metrics.successRate
    IN  IF /\ Less(Rat(0), prev_success_rate)
           /\ Less(current_success_rate,
                   Times(prev_success_rate, SUCCESS_RATE_DROP_RATIO))
           THEN << Message("Drastic drop in success rate", "", "",
                           format_2f(current_success_rate),
                           format_2f(prev_success_rate)) >>
           ELSE << >>

\* (mutant: exactly three times the previous value counts as a spike)
usage_spike_AtMultiple(text, current, previous) ==
    IF /\ previous > MIN_SAMPLES_FOR_ANOMALY
       /\ current >= previous * USAGE_SPIKE_MULTIPLIER
       THEN << Message(text, "", "", current, previous) >>
       ELSE << >>

\* Anomalies 2 and 3: unusual spike in total requests, in credit consumption
usage_spike(text, current, previous) ==
    IF /\ previous > MIN_SAMPLES_FOR_ANOMALY
       /\ current > previous * USAGE_SPIKE_MULTIPLIER
       THEN << Message(text, "", "", current, previous) >>
       ELSE << >>

\* (mutant: an item the previous report does not have is compared with an
\* empty item)
failure_rate_spike_Absent(key, item_name, current_group, previous_group) ==
    LET previous_item_data == IF item_name \in DOMAIN previous_group
                                 THEN previous_group[item_name]
                                 ELSE [NewItem EXCEPT !.total = MIN_SAMPLES_FOR_ANOMALY + 1]
        prev_failure_rate == previous_item_data.failureRate
        current_failure_rate == current_group[item_name].failureRate
    IN  IF /\ previous_item_data.total > MIN_SAMPLES_FOR_ANOMALY
           /\ Less(Times(prev_failure_rate, Rat(FAILURE_RATE_SPIKE_MULTIPLIER)),
                   current_failure_rate)
           /\ Less(Rat(SIGNIFICANT_FAILURE_RATE), current_failure_rate)
           THEN << Message("Spike in failure rate", key, item_name,
                           format_2f(current_failure_rate),
                           format_2f(prev_failure_rate)) >>
           ELSE << >>

\* Anomaly 4, for one item of current_metrics[key]
failure_rate_spike(key, item_name, current_group, previous_group) ==
    IF item_name \notin DOMAIN previous_group THEN << >>
    ELSE
    LET previous_item_data == previous_group[item_name]
        prev_failure_rate == previous_item_data.failureRate
        current_failure_rate == current_group[item_name].failureRate
    IN  IF /\ previous_item_data.total > MIN_SAMPLES_FOR_ANOMALY
           /\ Less(Times(prev_failure_rate, Rat(FAILURE_RATE_SPIKE_MULTIPLIER)),
                   current_failure_rate)
           /\ Less(Rat(SIGNIFICANT_FAILURE_RATE), current_failure_rate)
           THEN << Message("Spike in failure rate", key, item_name,
                           format_2f(current_failure_rate),
                           format_2f(prev_failure_rate)) >>
           ELSE << >>

\* current_metrics[key].items(): the item names in one order
items(group) == CHOOSE st \in Streams(DOMAIN group) : TRUE

\* Anomaly 4, for the items of current_metrics[key] from the i-th on
RECURSIVE failure_rate_spikes(_, _, _, _)
failure_rate_spikes(key, i, current_group, previous_group) ==
    IF i > Len(items(current_group)) THEN << >>
    ELSE failure_rate_spike(key, items(current_group)[i], current_group, previous_group)
         \o failure_rate_spikes(key, i + 1, current_group, previous_group)

\* the messages of the four checks, in the order of the checks
triggered(current_metrics, previous_metrics) ==
    success_rate_drop(current_metrics, previous_metrics)
    \o usage_spike("Unusual spike in total requests",
                   current_metrics.totalRequests, previous_metrics.totalRequests)
    \o usage_spike("Unusual spike in credit consumption",
                   current_metrics.totalCreditsSpent, previous_metrics.totalCreditsSpent)
    \o failure_rate_spikes("byModel", 1, current_metrics.byModel, previous_metrics.byModel)
    \o failure_rate_spikes("byStyle", 1, current_metrics.byStyle, previous_metrics.byStyle)
    \o failure_rate_spikes("bySize", 1, current_metrics.bySize, previous_metrics.bySize)

\* (mutant: the closing message is appended to whatever was found)
detect_anomalies_AlwaysCloses(current_metrics, previous_metrics) ==
    triggered(current_metrics, previous_metrics) \o << NoAnomaliesMessage >>

\* _detect_anomalies (a stored report has every field, so no default of
\* previous_metrics.get applies)
detect_anomalies(current_metrics, previous_metrics) ==
    LET anomalies == triggered(current_metrics, previous_metrics)
    IN  IF anomalies = << >> THEN << NoAnomaliesMessage >> ELSE anomalies

\* scheduleWeeklyReport: now = datetime.now(timezone.utc)
scheduleWeeklyReport(k) ==
    /\ report_pc[k] = "start"
    /\ now' = [now EXCEPT ![k] = clock]
    /\ report_pc' = [report_pc EXCEPT ![k] = "previous"]
    /\ UNCHANGED << reports, previous_report_data, requests_ref, report >>
    /\ UNCHANGED << storeVars, cacheVars, localVars, pc, response, initialCredits, catalog,
                    queryVars >>

\* scheduleWeeklyReport: the previous report
previous_reports_query(k) ==
    /\ report_pc[k] = "previous"
    /\ previous_report_data' = [previous_report_data EXCEPT ![k] = latest_report]
    /\ report_pc' = [report_pc EXCEPT ![k] = "requests"]
    /\ UNCHANGED << reports, now, requests_ref, report >>
    /\ UNCHANGED << storeVars, cacheVars, localVars, pc, response, initialCredits, catalog,
                    queryVars >>

\* scheduleWeeklyReport: the requests query, the aggregation and the rates
aggregate_requests(k) ==
    /\ report_pc[k] = "requests"
    /\ LET one_week_ago == now[k] - timedelta_days
       IN  \E st \in Streams(where_createdAt_ge(one_week_ago)) :
             /\ requests_ref' = [requests_ref EXCEPT ![k] = st]
             /\ report' = [report EXCEPT ![k] =
                   calculate_rates(
                      aggregate([report |-> EmptyReport, successful_requests |-> 0],
                                [i \in DOMAIN st |-> generationRequests[st[i]]]))]
    /\ report_pc' = [report_pc EXCEPT ![k] = "anomalies"]
    /\ UNCHANGED << reports, now, previous_report_data >>
    /\ UNCHANGED << storeVars, cacheVars, localVars, pc, response, initialCredits, catalog,
                    queryVars >>

\* scheduleWeeklyReport: 5. Detect Anomalies (the stream is used up)
report_anomalies(k) ==
    /\ report_pc[k] = "anomalies"
    /\ report' = [report EXCEPT ![k].anomalies =
                      IF previous_report_data[k] # None
                         THEN detect_anomalies(report[k], Get(previous_report_data[k]))
                         ELSE << NoBaselineMessage >>]
    /\ report_pc' = [report_pc EXCEPT ![k] = "save"]
    /\ requests_ref' = [requests_ref EXCEPT ![k] = << >>]
    /\ UNCHANGED << reports, now, previous_report_data >>
    /\ UNCHANGED << storeVars, cacheVars, localVars, pc, response, initialCredits, catalog,
                    queryVars >>

\* scheduleWeeklyReport: report_ref.set(report) and the return of the report
report_ref_set(k) ==
    /\ report_pc[k] = "save"
    /\ reports' = (report_id(now[k]) :>
                      [report[k] EXCEPT !.generatedAt = SERVER_TIMESTAMP]) @@ reports
    /\ clock' = SERVER_TIMESTAMP
    /\ report_pc' = [report_pc EXCEPT ![k] = "done"]
    /\ UNCHANGED << now, previous_report_data, requests_ref, report >>
    /\ UNCHANGED << credits, version, transactions, generationRequests, cacheVars,
                    localVars, pc, response, initialCredits, catalog, queryVars >>

\* report[key][value] after the requests counted in c = << total, completed,
\* failed >>
ItemOf(c) ==
    [NewItem EXCEPT !.total = c[1], !.completed = c[2], !.failed = c[3]]

\* report[key] after the requests counted in a, with value na, and in b, with
\* value nb
GroupOf(na, a, nb, b) ==
    LET ga == IF a[1] > 0 THEN (na :> ItemOf(a)) ELSE << >>
    IN  IF b[1] = 0 THEN ga
        ELSE IF nb \in DOMAIN ga
                THEN (nb :> ItemOf(<< a[1] + b[1], a[2] + b[2], a[3] + b[3] >>))
                ELSE (nb :> ItemOf(b)) @@ ga

\* the report of a week with the model-a/512x512 requests counted in a and
\* the model-b/1024x1024 requests counted in b, all of style anime
ReportOf(a, b) ==
    calculate_rates(
       [report |->
          [EmptyReport EXCEPT
             !.totalRequests = a[1] + b[1],
             !.totalCreditsSpent = a[2] * sizesCollection["512x512"].credits
                                   + b[2] * sizesCollection["1024x1024"].credits,
             !.totalCreditsRefunded = a[3] * sizesCollection["512x512"].credits
                                      + b[3] * sizesCollection["1024x1024"].credits,
             !.byModel = GroupOf("model-a", a, "model-b", b),
             !.byStyle = GroupOf("anime", a, "anime", b),
             !.bySize = GroupOf("512x512", a, "1024x1024", b)],
        successful_requests |-> a[2] + b[2]])

\* the report of the week before, stored seven days before StartTime by a run
\* that found no baseline: 11 model-a requests, one of them failed
PastReport ==
    [ReportOf(<< 11, 10, 1 >>, << 0, 0, 0 >>) EXCEPT
        !.anomalies = << NoBaselineMessage >>,
        !.generatedAt = StartTime - timedelta_days]

\* the store holds NumRequests earlier requests (listed once per choice, not
\* once per order of the ids) and no report or the report of the week before
InitReport ==
    /\ \E f \in [PastIds -> 0..8] :
          /\ \A i, j \in PastIds : i < j => f[i] <= f[j]
          /\ generationRequests = [i \in PastIds |-> PastRequest(f[i])]
    /\ clock = StartTime
    /\ InitCalls
    /\ InitRuns
    /\ reports \in {<< >>, (report_id(PastReport.generatedAt) :> PastReport)}

NextReport ==
    \E k \in Runs :
        \/ scheduleWeeklyReport(k)
        \/ previous_reports_query(k)
        \/ aggregate_requests(k)
        \/ report_anomalies(k)
        \/ report_ref_set(k)

\* report runs over a store of earlier requests
SpecReport == InitReport /\ [][NextReport]_vars

\* the clock is at StartTime, no request is in the store yet
InitLive ==
    /\ generationRequests = << >>
    /\ clock = StartTime
    /\ InitRest

NextLive ==
    \/ \E r \in 1..NumWriters :
          \/ createGenerationRequest(r)
          \/ atomic_deduct_read(r)
          \/ atomic_deduct_commit(r)
          \/ AIChat_create(r)
          \/ update_completed(r)
          \/ refund_transaction_read(r)
          \/ refund_transaction_commit(r)
          \/ update_failed(r)
    \/ scheduleWeeklyReport(1)
    \/ previous_reports_query(1)
    \/ aggregate_requests(1)
    \/ report_anomalies(1)
    \/ report_ref_set(1)

\* one report run next to createGenerationRequest handlers
SpecLive == InitLive /\ [][NextLive]_vars

\* ------------------------------------------- anomaly detection on its own
\* a week of requests by its counts << total, completed, failed >>: none,
\* ten and eleven requests, three times eleven and one more, and weeks whose
\* rates are a half or the double of another's
Samples ==
    {<< 0, 0, 0 >>, << 10, 8, 2 >>, << 10, 4, 6 >>, << 11, 8, 2 >>, << 11, 7, 4 >>,
     << 11, 11, 0 >>, << 33, 33, 0 >>, << 34, 34, 0 >>, << 40, 12, 28 >>}
SamplesB == {<< 0, 0, 0 >>, << 11, 10, 1 >>, << 10, 4, 6 >>}

\* run 1 has aggregated a week of requests (which the store is not asked for
\* again) and has read the previous report, stored a week before, or found
\* none
InitAnomalies ==
    /\ generationRequests = << >>
    /\ clock = StartTime
    /\ InitCalls
    /\ now = [k \in 1..NumRuns |-> IF k = 1 THEN StartTime ELSE 0]
    /\ report_pc = [k \in 1..NumRuns |-> IF k = 1 THEN "anomalies" ELSE "start"]
    /\ requests_ref = [k \in 1..NumRuns |-> << >>]
    /\ \E a \in Samples, b \in SamplesB :
          report = [k \in 1..NumRuns |-> IF k = 1 THEN ReportOf(a, b) ELSE EmptyReport]
    /\ \/ /\ reports = << >>
          /\ previous_report_data = [k \in 1..NumRuns |-> None]
       \/ \E a \in Samples, b \in SamplesB :
             LET previous == [ReportOf(a, b) EXCEPT
                                 !.anomalies = << NoBaselineMessage >>,
                                 !.generatedAt = StartTime - timedelta_days]
             IN  /\ reports = (report_id(previous.generatedAt) :> previous)
                 /\ previous_report_data =
                        [k \in 1..NumRuns |-> IF k = 1 THEN Some(previous) ELSE None]

NextAnomalies ==
    \/ report_anomalies(1)
    \/ report_ref_set(1)

\* the anomaly detection and the save of one run, for weeks of any size
SpecAnomalies == InitAnomalies /\ [][NextAnomalies]_vars

\* ------------------------------------------------- reading the ledger back
\* the entries of the users' logs of one type that reference request id
Entries(type, id) ==
    {e \in {<< u, i >> : u \in Users, i \in 1..(NumHandlers * 2)} :
        /\ e[2] \in DOMAIN transactions[e[1]]
        /\ transactions[e[1]][e[2]].type = type
        /\ transactions[e[1]][e[2]].generationRequestId = id}
Deductions(id) == Entries("deduction", id)
Refunds(id) == Entries("refund", id)
Entry(e) == transactions[e[1]][e[2]]

Created == DOMAIN generationRequests
Returned == DOMAIN response

\* a request whose deduction is charged and not given back
Held(r) == r \in Created /\ Refunds(r) = {}

RECURSIVE SumCost(_)
SumCost(S) ==
    IF S = {} THEN 0
    ELSE LET r == CHOOSE x \in S : TRUE
         IN  generationRequests[r].cost + SumCost(S \ {r})

RECURSIVE SumCredits(_, _)
SumCredits(log, type) ==
    IF log = << >> THEN 0
    ELSE (IF Head(log).type = type THEN Head(log).credits ELSE 0)
         + SumCredits(Tail(log), type)

RequestsOf(u) == {r \in Created : generationRequests[r].userId = u}

\* handler r took a step
Stepped(r) == pc'[r] # pc[r] \/ attempts'[r] # attempts[r]

\* the simulator answered handler r with an image
Succeeded(r) == generation_result[r] # None /\ Get(generation_result[r]).success

InsufficientResponse(r) ==
    r \in Returned /\ response[r].message = "Insufficient credits."

\* --------------------------------------------------------------------- C1
C1_RejectedUnchanged ==
    \A r \in Handlers :
        (/\ pc[r] = "deduct_read"
         /\ Stepped(r)
         /\ credits[data[r].userId] - credit_cost[r] < 0)
        => /\ pc'[r] = "done"
           /\ r \in DOMAIN response'
           /\ response'[r].message = "Insufficient credits."
           /\ credits' = credits
\* C1: every user's balance is >= 0 in every reachable state, whatever the
\* interleaving of the handlers' deduct and refund units; a deduct that would
\* make the balance negative is rejected and leaves every balance unchanged.
C1_BalanceNeverNegative ==
    /\ [](\A u \in Users : credits[u] >= 0)
    /\ [][C1_RejectedUnchanged]_vars
\* two handlers of one user are in flight together: one holds its deduction
\* and waits for the simulator, the balance is used up, the other is rejected
C1_Witness ==
    \E r1, r2 \in Handlers :
        /\ r1 # r2
        /\ data[r1].userId = data[r2].userId
        /\ pc[r1] = "simulate"
        /\ credits[data[r1].userId] = 0
        /\ InsufficientResponse(r2)
        /\ credit_cost[r2] <= initialCredits[data[r1].userId]

\* --------------------------------------------------------------------- C2
C2_AllPresent(r) ==
    /\ r \in Created
    /\ Deductions(r) # {}
    /\ \A e \in Deductions(r) :
          /\ e[1] = generationRequests[r].userId
          /\ Entry(e).credits = generationRequests[r].cost
C2_AllAbsent(r) == r \notin Created /\ Deductions(r) = {}
C2_Together ==
    /\ \A r \in Handlers :
          LET created == r \notin Created /\ r \in Created'
              logged  == Deductions(r) = {} /\ Deductions(r)' # {}
          IN  /\ created <=> logged
              /\ created =>
                   LET d == generationRequests'[r]
                   IN  /\ d.status = "pending"
                       /\ credits'[d.userId] = credits[d.userId] - d.cost
                       /\ d.cost > 0
    /\ \A u \in Users :
          credits'[u] < credits[u] =>
             \E r \in Handlers :
                /\ r \notin Created /\ r \in Created'
                /\ generationRequests'[r].userId = u
\* C2: deduct is all-or-nothing: for every request id the balance decrease,
\* the Deduction entry and the Pending GenerationRequest appear in one step,
\* and no state has one of them without the others.
C2_DeductAllOrNothing ==
    /\ [](\A r \in Handlers : C2_AllPresent(r) \/ C2_AllAbsent(r))
    /\ [](\A r \in Handlers :
             (pc[r] \in {"start", "deduct_read", "deduct_commit"} => C2_AllAbsent(r))
             /\ (pc[r] = "simulate" =>
                   C2_AllPresent(r) /\ generationRequests[r].status = "pending"))
    /\ [][C2_Together]_vars
\* a unit whose commit was refused once has written nothing, while another
\* request of the same user has all three effects
C2_Witness ==
    \E r1, r2 \in Handlers :
        /\ r1 # r2
        /\ data[r1].userId = data[r2].userId
        /\ pc[r1] = "deduct_read" /\ attempts[r1] = 1 /\ C2_AllAbsent(r1)
        /\ pc[r2] = "simulate" /\ C2_AllPresent(r2)
        /\ credits[data[r2].userId] = initialCredits[data[r2].userId] - credit_cost[r2]

Rejected(r) == r \in Returned /\ response[r].status \in {400, 404}
C4_NoWrite ==
    \A r \in Handlers :
        (/\ Stepped(r)
         /\ \/ pc[r] \in {"start", "deduct_read"}
            \/ (pc[r] = "deduct_commit" /\ pc'[r] # "simulate")
            \/ (r \in DOMAIN response' /\ response'[r].status \in {400, 404}))
        => UNCHANGED << credits, transactions, generationRequests >>
C4_NoFootprint ==
    /\ \A r \in Handlers :
          Rejected(r) =>
             /\ r \notin Created
             /\ Deductions(r) = {} /\ Refunds(r) = {}
             /\ generation_result[r] = None
    /\ \A u \in Users :
          credits[u] = initialCredits[u]
                         - SumCredits(transactions[u], "deduction")
                         + SumCredits(transactions[u], "refund")
\* C4: a call that ends in a validation error, "User not found." or
\* "Insufficient credits." changes nothing in the store: no step it takes
\* writes a balance, a log entry or a request, no entry or request carries
\* its id, the balances agree with the log, and its simulator never ran.
C4_RejectedLeavesStoreUnchanged ==
    /\ []C4_NoFootprint
    /\ [][C4_NoWrite]_vars
\* a call that passed the validation and the user lookup was rejected for
\* insufficient credits, next to a charged request of the same user
C4_Witness ==
    \E r1, r2 \in Handlers :
        /\ InsufficientResponse(r1) /\ Rejected(r1)
        /\ Held(r2)
        /\ generationRequests[r2].userId = data[r1].userId

\* --------------------------------------------------------------------- C5
C5_Check ==
    \A r \in Handlers :
        (pc[r] = "deduct_read" /\ Stepped(r)) =>
           LET balance == credits[data[r].userId]
               rejected == /\ pc'[r] = "done"
                           /\ r \in DOMAIN response'
                           /\ response'[r].message = "Insufficient credits."
           IN  /\ rejected <=> balance < credit_cost[r]
               /\ pc'[r] = "deduct_commit" <=> balance >= credit_cost[r]
               /\ credit_cost[r] > 0
C5_ExactCommit ==
    \A r \in Handlers :
        (pc[r] = "deduct_commit" /\ pc'[r] = "simulate") =>
           /\ snapshot[r].credits >= credit_cost[r]
           /\ credits'[data[r].userId] = snapshot[r].credits - credit_cost[r]
           /\ (snapshot[r].credits = credit_cost[r] => credits'[data[r].userId] = 0)
\* C5: the deduct unit is rejected with "Insufficient credits." exactly when
\* the balance it reads is below the cost; a cost equal to the balance is
\* accepted and its commit leaves the balance at 0, after which every request
\* of that user is rejected.
C5_RejectedIffBelowCost ==
    [][C5_Check /\ C5_ExactCommit]_vars
\* u2's single credit paid a 1-credit request; the next 1-credit request of
\* u2 was rejected on the balance 0
C5_Witness ==
    \E r1, r2 \in Handlers :
        /\ Held(r1)
        /\ generationRequests[r1].userId = "u2"
        /\ generationRequests[r1].cost = initialCredits["u2"]
        /\ credits["u2"] = 0
        /\ InsufficientResponse(r2)
        /\ data[r2].userId = "u2" /\ credit_cost[r2] = 1

\* --------------------------------------------------------------------- C6
\* a handler is between its first step and its return
Active(r) == pc[r] \notin {"start", "done"}
\* the calls are made one after another
OneAtATime == \A r1, r2 \in Handlers : (Active(r1) /\ Active(r2)) => r1 = r2
\* a user's balance is the initial balance minus the cost of the requests
\* that are charged and not refunded
C6_BalanceIsInitialMinusHeld ==
    \A u \in Users :
        /\ credits[u] = initialCredits[u] - SumCost({r \in RequestsOf(u) : Held(r)})
        /\ (\A r \in RequestsOf(u) : Refunds(r) # {}) => credits[u] = initialCredits[u]
\* no call is in progress and every request of u failed in the simulator
C6_AllFailedRestored ==
    \A u \in Users :
        ( /\ \A r \in Handlers : ~Active(r)
          /\ \A r \in RequestsOf(u) : ~Succeeded(r) )
        => credits[u] = initialCredits[u]
\* C6: a deduction followed by the refund of the same request restores the
\* balance exactly: in every state a user's balance is the initial balance
\* minus the cost of the requests that are charged and not refunded; and when
\* the calls are made one after another, after any number of requests that
\* all failed in the simulator the balance is the initial one.
C6_RoundTrip ==
    /\ []C6_BalanceIsInitialMinusHeld
    /\ ([]OneAtATime => []C6_AllFailedRestored)
\* two requests of one user, of different cost, both failed in the simulator
\* and both were refunded
C6_Witness ==
    \E r1, r2 \in Handlers :
        /\ r1 # r2
        /\ r1 \in Created /\ r2 \in Created
        /\ generationRequests[r1].userId = generationRequests[r2].userId
        /\ generationRequests[r1].cost # generationRequests[r2].cost
        /\ Refunds(r1) # {} /\ Refunds(r2) # {}
        /\ credits[generationRequests[r1].userId]
              = initialCredits[generationRequests[r1].userId]

\* --------------------------------------------------------------------- C7
\* C7: once a createGenerationRequest handler has returned, the request it
\* created is Completed or Failed, never Pending.
C7_NoPendingAfterReturn ==
    \A r \in Handlers :
        (r \in Returned /\ r \in Created) => generationRequests[r].status # "pending"

\* --------------------------------------------------------------------- C8
\* C8: every GenerationRequest has exactly one Deduction entry, in its user's
\* log and of its cost; it has at most one Refund entry, likewise of its cost;
\* once its handler has returned it has the Refund exactly when its status is
\* Failed, and a Completed request has none.
C8_ExactlyOnce ==
    \A r \in Created :
        LET d == generationRequests[r]
        IN  /\ Cardinality(Deductions(r)) = 1
            /\ Cardinality(Refunds(r)) <= 1
            /\ \A e \in Deductions(r) \cup Refunds(r) :
                  e[1] = d.userId /\ Entry(e).credits = d.cost
            /\ r \in Returned => (Cardinality(Refunds(r)) = 1 <=> d.status = "failed")
            /\ d.status = "failed" => Cardinality(Refunds(r)) = 1
            /\ d.status = "completed" => Refunds(r) = {}
\* one handler returned with its request Failed and refunded, the other with
\* its request Completed and no refund
C8_Witness ==
    \E r1, r2 \in Returned \cap Created :
        /\ generationRequests[r1].status = "failed"
        /\ Cardinality(Refunds(r1)) = 1
        /\ generationRequests[r2].status = "completed"
        /\ Refunds(r2) = {}
        /\ generationRequests[r1].userId = generationRequests[r2].userId

\* --------------------------------------------------------------------- C9
\* C9 as stated: for every user, the Deductions minus the Refunds of the log
\* equal the cost of the user's Pending and Completed requests.
Net(u) ==
    SumCredits(transactions[u], "deduction") - SumCredits(transactions[u], "refund")
C9_Conservation ==
    \A u \in Users :
        Net(u) = SumCost({r \in RequestsOf(u) :
                             generationRequests[r].status \in {"pending", "completed"}})
\* C9 as amended: for every user, the Deductions minus the Refunds of the log
\* equal the cost of the user's Completed requests and of the Pending ones
\* whose Refund has not committed; a refunded request is still Pending only
\* while its handler stands between the Refund commit and the Failed update.
C9_ConservationAmended ==
    /\ \A u \in Users :
          Net(u) = SumCost({r \in RequestsOf(u) :
                               /\ generationRequests[r].status \in {"pending", "completed"}
                               /\ Refunds(r) = {}})
    /\ \A r \in Created :
          (generationRequests[r].status = "pending" /\ Refunds(r) # {})
             => pc[r] = "update_failed"
\* a user with a Completed request, and a request whose Refund has committed
\* while it is still Pending
C9_Witness ==
    \E r1, r2 \in Created :
        /\ generationRequests[r1].userId = generationRequests[r2].userId
        /\ generationRequests[r1].status = "completed"
        /\ generationRequests[r2].status = "pending"
        /\ Refunds(r2) # {}
        /\ Net(generationRequests[r1].userId) = generationRequests[r1].cost

\* -------------------------------------------------------------------- C10
C10_Response ==
    \A r \in Handlers :
        /\ (pc[r] = "done" /\ Succeeded(r)) => (r \in Returned /\ response[r].status = 200)
        /\ (r \in Returned /\ response[r].status = 200) =>
              LET cost == Get(SIZES)[data[r].size]
                  url  == Get(generation_result[r]).imageUrl
              IN  /\ Succeeded(r)
                  /\ r \in Created
                  /\ response[r].generationRequestId = r
                  /\ response[r].deductedCredits = cost
                  /\ response[r].imageUrl = url
                  /\ url = PLACEHOLDER_URLS[data[r].model]
                  /\ generationRequests[r].status = "completed"
                  /\ generationRequests[r].imageUrl = url
                  /\ generationRequests[r].cost = cost
                  /\ generationRequests[r].userId = data[r].userId
                  /\ Refunds(r) = {}
                  /\ Cardinality(Deductions(r)) = 1
                  /\ \A e \in Deductions(r) :
                        e[1] = data[r].userId /\ Entry(e).credits = cost
C10_Charged ==
    \A r \in Handlers :
        (r \notin Created /\ r \in Created') =>
           LET u == data[r].userId
           IN  /\ credits'[u] = credits[u] - Get(SIZES)[data[r].size]
               /\ Len(transactions'[u]) = Len(transactions[u]) + 1
               /\ \A v \in Users \ {u} :
                     credits'[v] = credits[v] /\ transactions'[v] = transactions[v]
\* C10: when the simulator returned success the handler answers 200 with the
\* id of the request it created, deductedCredits equal to the cached catalog
\* cost of the submitted size and the simulator's imageUrl; the request is
\* Completed with that cost, url and the submitted userId, the log holds one
\* entry for it (a Deduction of that cost), and the commit lowered the user's
\* balance by exactly that cost.
C10_SuccessPath ==
    /\ []C10_Response
    /\ [][C10_Charged]_vars
\* the 3-credit request of u1 succeeded: 200, balance 4 - 3, one log entry
C10_Witness ==
    \E r \in Returned :
        /\ response[r].status = 200
        /\ response[r].deductedCredits = 3
        /\ data[r].userId = "u1"
        /\ credits["u1"] = initialCredits["u1"] - 3
        /\ Len(transactions["u1"]) = 1

\* -------------------------------------------------------------------- C11
\* handler r returned the failure-branch error
GenerationFailed(r) ==
    r \in Returned /\ response[r].message = "AI generation failed, credits refunded."
\* what has happened for r implies everything that comes before it
C11_Before ==
    \A r \in Handlers :
        /\ generation_result[r] # None => (r \in Created /\ Deductions(r) # {})
        /\ Refunds(r) # {} =>
              /\ generation_result[r] # None /\ ~Succeeded(r)
              /\ \A d \in Deductions(r), f \in Refunds(r) :
                    /\ d[1] = f[1] /\ d[1] = generationRequests[r].userId
                    /\ d[2] < f[2]
                    /\ Entry(d).credits = Entry(f).credits
        /\ (r \in Created /\ generationRequests[r].status = "failed") => Refunds(r) # {}
        /\ GenerationFailed(r) =>
              /\ response[r].status = 500
              /\ generationRequests[r].status = "failed"
\* the four steps are separate steps: the simulator call commits nothing, the
\* refund commits while the request is still Pending and the handler has not
\* returned, and the handler returns in no step before the Failed update
C11_Separate ==
    \A r \in Handlers :
        /\ (generation_result[r] = None /\ generation_result'[r] # None)
              => (Deductions(r) # {} /\ UNCHANGED storeVars)
        /\ (Refunds(r) = {} /\ Refunds(r)' # {})
              => /\ generationRequests'[r].status = "pending"
                 /\ r \notin Returned'
        /\ (~GenerationFailed(r) /\ GenerationFailed(r)')
              => /\ Refunds(r) # {}
                 /\ generationRequests'[r].status = "failed"
\* C11: on simulator failure the Deduction is committed, then the simulator
\* is invoked, then the Refund for the same user, amount and request is
\* committed, then the request is marked Failed, and only then the handler
\* returns HTTP 500 with the message stating that credits were refunded; the
\* Deduction precedes the Refund in the user's log.
C11_FailureOrder ==
    /\ []C11_Before
    /\ [][C11_Separate]_vars
\* a handler returned the failure error next to a request of the same user
\* that completed
C11_Witness ==
    \E r1, r2 \in Handlers :
        /\ GenerationFailed(r1)
        /\ r2 \in Created /\ generationRequests[r2].status = "completed"
        /\ generationRequests[r1].userId = generationRequests[r2].userId
        /\ Len(transactions[generationRequests[r1].userId]) = 3

\* -------------------------------------------------------------------- C12
\* the simulator failed for r, the refund unit raised and the handler returned
RefundFailed(r) ==
    /\ pc[r] = "done"
    /\ generation_result[r] # None /\ ~Succeeded(r)
    /\ Refunds(r) = {}
C12_Outcome ==
    \A r \in Handlers :
        /\ Cardinality(Refunds(r)) <= 1
        /\ RefundFailed(r) =>
              /\ r \in Returned
              /\ response[r].status = 500
              /\ ~GenerationFailed(r)
              /\ Deductions(r) # {}
              /\ credits[data[r].userId] <= initialCredits[data[r].userId] - credit_cost[r]
        /\ GenerationFailed(r) => Refunds(r) # {}
\* the handler starts the refund unit once, after the simulator; the unit is
\* run again only by its own conflict retry; a handler that returned stays so
C12_Once ==
    \A r \in Handlers :
        /\ (pc[r] # "refund_read" /\ pc'[r] = "refund_read") =>
              \/ pc[r] = "simulate"
              \/ /\ pc[r] = "refund_commit"
                 /\ attempts'[r] = attempts[r] + 1
                 /\ attempts'[r] < MaxAttempts
        /\ pc[r] = "done" => pc'[r] = "done"
\* C12: the compensating refund is attempted once per failed generation and
\* never retried by the handler; when the refund unit fails the credits stay
\* deducted and the handler returns an internal error (500) whose message is
\* not the one of the routine failure and does not claim a refund.
C12_RefundFailureSurfaced ==
    /\ []C12_Outcome
    /\ [][C12_Once]_vars
\* a refund unit gave up while the other handler of the user was refunded
C12_Witness ==
    \E r1, r2 \in Handlers :
        /\ RefundFailed(r1)
        /\ response[r1].message = "An unexpected internal error occurred."
        /\ GenerationFailed(r2)
        /\ data[r1].userId = data[r2].userId

\* -------------------------------------------------------------------- C13
C13_Status ==
    \A r \in Created :
        generationRequests[r].status \in {"pending", "completed", "failed"}
C13_Transition ==
    \A r \in Handlers :
        /\ (r \notin Created /\ r \in Created') => generationRequests'[r].status = "pending"
        /\ r \in Created =>
              /\ r \in Created'
              /\ generationRequests'[r].status # generationRequests[r].status =>
                    /\ generationRequests[r].status = "pending"
                    /\ generationRequests'[r].status \in {"completed", "failed"}
\* C13: a request is created Pending, its status only moves from Pending to
\* Completed or to Failed, and no step changes the status of a Completed or
\* Failed request.
C13_Lifecycle ==
    /\ []C13_Status
    /\ [][C13_Transition]_vars
\* one request Completed, one Failed, both handlers returned
C13_Witness ==
    \E r1, r2 \in Created \cap Returned :
        /\ generationRequests[r1].status = "completed"
        /\ generationRequests[r2].status = "failed"

\* -------------------------------------------------------------------- C14
\* handler r holds an open transactional unit
UnitOpen(r) == snapshot[r] # NoSnapshot \/ attempts[r] > 0
\* a handler waiting on the simulator has committed its deduction and holds
\* no open unit
C14_AfterCommit ==
    \A r \in Handlers :
        pc[r] = "simulate" =>
            /\ r \in Created /\ Cardinality(Deductions(r)) = 1
            /\ generationRequests[r].status = "pending"
            /\ ~UnitOpen(r)
\* the simulator is called from the waiting position only and writes nothing
C14_OutsideUnit ==
    \A r \in Handlers :
        (generation_result[r] = None /\ generation_result'[r] # None) =>
            /\ pc[r] = "simulate" /\ ~UnitOpen(r)
            /\ UNCHANGED storeVars
HandlersOf(u) == {r \in Handlers : data[r].userId = u}
\* log entry e is of the given type, amount and request
IsEntry(e, type, cost, id) ==
    e.type = type /\ e.credits = cost /\ e.generationRequestId = id
\* balance and log of u are what the single call r leaves when it runs alone
AsAlone(u, r) ==
    LET cost == credit_cost[r]
        log  == transactions[u]
    IN  IF cost > initialCredits[u]
           THEN /\ InsufficientResponse(r)
                /\ credits[u] = initialCredits[u] /\ log = << >>
        ELSE IF Succeeded(r)
           THEN /\ response[r].status = 200
                /\ credits[u] = initialCredits[u] - cost
                /\ Len(log) = 1 /\ IsEntry(log[1], "deduction", cost, r)
        ELSE /\ GenerationFailed(r)
             /\ credits[u] = initialCredits[u]
             /\ Len(log) = 2
             /\ IsEntry(log[1], "deduction", cost, r)
             /\ IsEntry(log[2], "refund", cost, r)
C15_NoContention ==
    \A r \in Handlers :
        /\ (attempts[r] > 0 \/ (snapshot[r] # NoSnapshot /\ Conflict(r))) =>
              \E r2 \in Handlers \ {r} :
                  data[r2].userId = data[r].userId /\ r2 \in Created
        /\ ((\A r2 \in Handlers : pc[r2] = "done") /\ data[r].userId \in Users
               /\ HandlersOf(data[r].userId) = {r})
              => AsAlone(data[r].userId, r)
C15_Frame ==
    \A u \in Users :
        (credits'[u] # credits[u] \/ transactions'[u] # transactions[u]
           \/ version'[u] # version[u])
        => \E r \in Handlers : Stepped(r) /\ data[r].userId = u
\* C15: every step of a handler for user u leaves the balance and the log of
\* every other user unchanged; a unit is refused only because of a commit of
\* another handler of the same user, and when the handlers are for distinct
\* users each user's final balance and log are those of that user's call run
\* alone.
C15_UsersIndependent ==
    /\ []C15_NoContention
    /\ [][C15_Frame]_vars
\* both handlers returned: one charged u1, the other was charged and refunded
\* for u2
C15_Witness ==
    \E r1, r2 \in Handlers :
        /\ pc[r1] = "done" /\ pc[r2] = "done"
        /\ data[r1].userId = "u1" /\ data[r2].userId = "u2"
        /\ response[r1].status = 200
        /\ GenerationFailed(r2)
        /\ Deductions(r1) # {} /\ Deductions(r2) # {} /\ Refunds(r2) # {}
        /\ version["u1"] = 1 /\ version["u2"] = 2

\* -------------------------------------------------------------------- C16
\* the returned list is ordered newest first
NewestFirst(list) ==
    \A i, j \in DOMAIN list : i < j => list[i].timestamp[2] > list[j].timestamp[2]
\* the returned list holds exactly the entries of log, each with its fields
TransactionsOf(list, log) ==
    /\ Len(list) = Len(log)
    /\ \A i \in DOMAIN log :
          \E k \in DOMAIN list :
              list[k] = [id |-> i, type |-> log[i].type, credits |-> log[i].credits,
                         generationRequestId |-> log[i].generationRequestId,
                         timestamp |-> isoformat(log[i].timestamp)]
C16_Answer ==
    credits_response # None =>
        LET resp == Get(credits_response)
        IN  /\ user_id = Missing => resp.status = 400
            /\ (user_id # Missing /\ user_id \notin Users) => resp.status = 404
            /\ user_id \in Users =>
                  /\ resp.status = 200
                  /\ NewestFirst(resp.transactions)
\* the call reads the balance, then the log, and writes nothing
C16_Reads ==
    q_pc' # q_pc =>
        /\ UNCHANGED << storeVars, cacheVars >>
        /\ q_pc' = "query" => q_current_credits' = credits[user_id']
        /\ (q_pc = "query" /\ q_pc' = "done") =>
              /\ Get(credits_response').currentCredits = q_current_credits
              /\ TransactionsOf(Get(credits_response').transactions,
                                transactions[user_id])
\* C16: for an existing user getUserCredits returns the balance it read and
\* every transaction of the user's log (id, type, credits,
\* generationRequestId, timestamp) ordered by timestamp descending, and
\* changes no stored state; without a userId it returns 400, for an unknown
\* user 404.
C16_GetUserCredits ==
    /\ []C16_Answer
    /\ [][C16_Reads]_vars
\* the answer for a user with a refunded request: the Refund first, then the
\* Deduction
C16_Witness ==
    /\ credits_response # None
    /\ Get(credits_response).status = 200
    /\ Len(Get(credits_response).transactions) = 2
    /\ Get(credits_response).transactions[1].type = "refund"
    /\ Get(credits_response).transactions[2].type = "deduction"
    /\ Get(credits_response).currentCredits = initialCredits[user_id]

\* ------------------------------------------------------ reading a report
\* run k has aggregated and has not yet looked for anomalies
Aggregated(k) == report_pc[k] = "anomalies"
\* the ids run k streamed
Streamed(k) == {requests_ref[k][i] : i \in DOMAIN requests_ref[k]}
\* the streamed requests of run k with the given status
WithStatus(k, status) ==
    {id \in Streamed(k) : generationRequests[id].status = status}

\* -------------------------------------------------------------------- C17
\* the map of one dimension counts, per value, the streamed requests having it
C17_Map(k, group, dim) ==
    /\ DOMAIN group = {generationRequests[id][dim] : id \in Streamed(k)}
    /\ \A v \in DOMAIN group :
          LET having == {id \in Streamed(k) : generationRequests[id][dim] = v}
          IN  /\ group[v].total = Cardinality(having)
              /\ group[v].completed = Cardinality(having \cap WithStatus(k, "completed"))
              /\ group[v].failed = Cardinality(having \cap WithStatus(k, "failed"))
\* C17: totalRequests is the number of in-window requests, totalCreditsSpent
\* the sum of cost over the Completed ones, totalCreditsRefunded the sum of
\* cost over the Failed ones, and byModel, byStyle and bySize map each value
\* of their dimension to the counts total, completed and failed of the
\* in-window requests having it.
C17_Totals ==
    \A k \in Runs :
        Aggregated(k) =>
            /\ report[k].totalRequests = Cardinality(Streamed(k))
            /\ report[k].totalCreditsSpent = SumCost(WithStatus(k, "completed"))
            /\ report[k].totalCreditsRefunded = SumCost(WithStatus(k, "failed"))
            /\ C17_Map(k, report[k].byModel, "model")
            /\ C17_Map(k, report[k].byStyle, "style")
            /\ C17_Map(k, report[k].bySize, "size")
\* a report over a Completed 3-credit request and a Failed 1-credit request
\* of different models
C17_Witness ==
    \E k \in Runs :
        /\ Aggregated(k)
        /\ report[k].totalRequests = 2
        /\ report[k].totalCreditsSpent = 3
        /\ report[k].totalCreditsRefunded = 1
        /\ DOMAIN report[k].byModel = {"model-a", "model-b"}
        /\ report[k].byModel["model-a"].failed = 1

\* -------------------------------------------------------------------- C18
\* C18: a request contributes to a report run if and only if its createdAt
\* lies within the seven days ending at the run's invocation time, both ends
\* included.
C18_Window ==
    \A k \in Runs :
        Aggregated(k) =>
            Streamed(k) = {id \in DOMAIN generationRequests :
                             /\ generationRequests[id].createdAt >= now[k] - timedelta_days
                             /\ generationRequests[id].createdAt <= now[k]}

\* -------------------------------------------------------------------- C19
\* rate is the fraction part / whole * 100
IsPercent(rate, part, whole) ==
    rate.den > 0 /\ rate.num * whole = 100 * part * rate.den
C19_MapRates(group) ==
    \A v \in DOMAIN group :
        IsPercent(group[v].failureRate, group[v].failed, group[v].total)
\* C19: successRate is completed / total * 100 over the in-window requests
\* and 0 when there are none, and the failureRate of every entry of byModel,
\* byStyle and bySize is its failed / total * 100.
C19_Rates ==
    \A k \in Runs :
        Aggregated(k) =>
            /\ IsPercent(report[k].successRate,
                         Cardinality(WithStatus(k, "completed")),
                         Cardinality(Streamed(k)))
            /\ Streamed(k) = {} => report[k].successRate.num = 0
            /\ C19_MapRates(report[k].byModel)
            /\ C19_MapRates(report[k].byStyle)
            /\ C19_MapRates(report[k].bySize)
\* a report with success rate 50, one model never failing and one always
C19_Witness ==
    \E k \in Runs :
        /\ Aggregated(k)
        /\ report[k].successRate = [num |-> 50, den |-> 1]
        /\ \E v, w \in DOMAIN report[k].byModel :
              /\ report[k].byModel[v].failureRate = [num |-> 100, den |-> 1]
              /\ report[k].byModel[w].failureRate = [num |-> 0, den |-> 1]

\* -------------------------------------------------------------------- C20
\* C20: two report runs over the same set of requests and the same window
\* produce the same totalRequests, totalCreditsSpent, totalCreditsRefunded,
\* successRate and per-dimension maps, whatever the order in which the
\* requests are streamed to each.
C20_Deterministic ==
    \A k1, k2 \in Runs :
        (Aggregated(k1) /\ Aggregated(k2) /\ now[k1] = now[k2]
           /\ Streamed(k1) = Streamed(k2))
        => /\ report[k1].totalRequests = report[k2].totalRequests
           /\ report[k1].totalCreditsSpent = report[k2].totalCreditsSpent
           /\ report[k1].totalCreditsRefunded = report[k2].totalCreditsRefunded
           /\ report[k1].successRate = report[k2].successRate
           /\ report[k1].byModel = report[k2].byModel
           /\ report[k1].byStyle = report[k2].byStyle
           /\ report[k1].bySize = report[k2].bySize
\* two runs with the same window were streamed two Completed requests of
\* different cost in opposite orders
C20_Witness ==
    \E k1, k2 \in Runs :
        /\ Aggregated(k1) /\ Aggregated(k2) /\ now[k1] = now[k2]
        /\ Len(requests_ref[k1]) = 2 /\ Len(requests_ref[k2]) = 2
        /\ requests_ref[k1][1] = requests_ref[k2][2]
        /\ requests_ref[k1][2] = requests_ref[k2][1]
        /\ report[k1].totalCreditsSpent = 4

\* ------------------------------------------------- reading the anomalies back
\* run k has filled report[k].anomalies
Detected(k) == report_pc[k] \in {"save", "done"}

\* the entries of a list with the given text
WithText(list, text) == {i \in DOMAIN list : list[i].text = text}

\* the threshold conditions, on the numbers of the two reports
DropCondition(current, previous) ==
    /\ previous.successRate.num > 0
    /\ 2 * current.successRate.num * previous.successRate.den
          < previous.successRate.num * current.successRate.den
SpikeCondition(current, previous) ==
    previous > 10 /\ current > previous * 3
FailureCondition(current_group, previous_group, item_name) ==
    /\ item_name \in DOMAIN current_group
    /\ item_name \in DOMAIN previous_group
    /\ previous_group[item_name].total > 10
    /\ current_group[item_name].failureRate.num * previous_group[item_name].failureRate.den
          > 2 * previous_group[item_name].failureRate.num
              * current_group[item_name].failureRate.den
    /\ current_group[item_name].failureRate.num
          > 20 * current_group[item_name].failureRate.den
AnyCondition(current, previous) ==
    \/ DropCondition(current, previous)
    \/ SpikeCondition(current.totalRequests, previous.totalRequests)
    \/ SpikeCondition(current.totalCreditsSpent, previous.totalCreditsSpent)
    \/ \E name \in DOMAIN current.byModel :
          FailureCondition(current.byModel, previous.byModel, name)
    \/ \E name \in DOMAIN current.byStyle :
          FailureCondition(current.byStyle, previous.byStyle, name)
    \/ \E name \in DOMAIN current.bySize :
          FailureCondition(current.bySize, previous.bySize, name)

ThresholdTexts ==
    {"Drastic drop in success rate", "Unusual spike in total requests",
     "Unusual spike in credit consumption", "Spike in failure rate"}

\* ---------------------------------------------------------------------- C21
\* C21: the anomalies list of a report is never empty and has one of three
\* exclusive shapes: without a previous report it is the single 'no baseline'
\* message; with a previous report and no check triggered it is the single
\* 'No significant anomalies detected this week.' message; otherwise it holds
\* threshold-triggered messages only.  This holds for the list a run has
\* computed and for every stored report.
C21_Shapes ==
    /\ \A k \in Runs :
          Detected(k) =>
             LET anomalies == report[k].anomalies
             IN  /\ anomalies # << >>
                 /\ previous_report_data[k] = None
                       => anomalies = << NoBaselineMessage >>
                 /\ previous_report_data[k] # None =>
                       IF AnyCondition(report[k], Get(previous_report_data[k]))
                          THEN \A i \in DOMAIN anomalies :
                                  anomalies[i].text \in ThresholdTexts
                          ELSE anomalies = << NoAnomaliesMessage >>
    /\ \A id \in DOMAIN reports :
          LET anomalies == reports[id].anomalies
          IN  \/ anomalies = << NoBaselineMessage >>
              \/ anomalies = << NoAnomaliesMessage >>
              \/ /\ anomalies # << >>
                 /\ \A i \in DOMAIN anomalies : anomalies[i].text \in ThresholdTexts

\* a stored report with two threshold messages next to its stored baseline
C21_Witness ==
    /\ report_pc[1] = "done"
    /\ previous_report_data[1] # None
    /\ Len(reports[report_id(now[1])].anomalies) >= 2
    /\ \A i \in DOMAIN reports[report_id(now[1])].anomalies :
          reports[report_id(now[1])].anomalies[i].text \in ThresholdTexts

\* ---------------------------------------------------------------------- C22
\* C22: with a previous report, the success-rate-drop message is in the list
\* if and only if previous.successRate > 0 and current.successRate <
\* previous.successRate * 0.5, whatever the other checks find; it is there at
\* most once and carries the two rates.
C22_SuccessRateDrop ==
    \A k \in Runs :
       Detected(k) /\ previous_report_data[k] # None =>
          LET previous == Get(previous_report_data[k])
              drops == WithText(report[k].anomalies, "Drastic drop in success rate")
          IN  /\ drops # {} <=> DropCondition(report[k], previous)
              /\ Cardinality(drops) <= 1
              /\ \A i \in drops :
                    /\ report[k].anomalies[i].current = format_2f(report[k].successRate)
                    /\ report[k].anomalies[i].previous = format_2f(previous.successRate)

\* the drop is reported next to a spike of the requests
C22_Witness ==
    /\ Detected(1)
    /\ previous_report_data[1] # None
    /\ WithText(report[1].anomalies, "Drastic drop in success rate") # {}
    /\ WithText(report[1].anomalies, "Unusual spike in total requests") # {}

C24_ForKey(k, key, current_group, previous_group) ==
    \A name \in DOMAIN current_group \cup DOMAIN previous_group :
       LET spikes == {i \in WithText(report[k].anomalies, "Spike in failure rate") :
                         /\ report[k].anomalies[i].key = key
                         /\ report[k].anomalies[i].item_name = name}
       IN  Cardinality(spikes) =
              IF FailureCondition(current_group, previous_group, name) THEN 1 ELSE 0
C25_Scenario(k) ==
    /\ Detected(k)
    /\ previous_report_data[k] # None
    /\ Get(previous_report_data[k]).successRate = Rat(80)
    /\ Get(previous_report_data[k]).totalRequests = 10
    /\ report[k].successRate = Rat(30)
    /\ report[k].totalRequests = 40
C25_DropAndSpike ==
    \A k \in Runs :
       C25_Scenario(k) =>
          /\ WithText(report[k].anomalies, "Drastic drop in success rate") # {}
          /\ WithText(report[k].anomalies, "Unusual spike in total requests") # {}

\* ---------------------------------------------------------------------- C26
\* the calendar date of a time
DateOf(t) == t \div TicksPerDay

Saved(k) == report_pc[k] = "done"
Saves(k) == report_pc[k] = "save" /\ report_pc'[k] = "done"

\* the report documents are the report of the week before, if there was
\* one, and one per date on which a finished run started
C26_OnePerDate ==
    /\ {id \in DOMAIN reports : reports[id].generatedAt > StartTime}
          = {DateOf(now[k]) : k \in {j \in Runs : Saved(j)}}
    /\ \A id \in DOMAIN reports : reports[id].generatedAt <= StartTime =>
          /\ reports[id] = PastReport
          /\ \A k \in Runs : report_pc[k] # "start" => DateOf(now[k]) # id

\* a run that saves leaves, under the date it started on, its own report
\* stamped by the store, and leaves every other document as it was
C26_Write ==
    \A k \in Runs :
       Saves(k) =>
          /\ DOMAIN reports' = DOMAIN reports \cup {DateOf(now[k])}
          /\ reports'[DateOf(now[k])] = [report[k] EXCEPT !.generatedAt = clock']
          /\ \A id \in DOMAIN reports : id # DateOf(now[k]) => reports'[id] = reports[id]

\* C26: the key of a report document is a function of the date the run
\* started on: runs of the same date, one after the other or overlapping,
\* leave one document for that date, holding what the last of them wrote;
\* runs of different dates leave each other's documents alone.
C26_KeyPerDate == []C26_OnePerDate /\ [][C26_Write]_vars

\* two runs of the same date have saved, the later one over the earlier one,
\* which had been its baseline
C26_Witness ==
    \E j, k \in Runs :
       /\ j # k /\ Saved(j) /\ Saved(k)
       /\ DateOf(now[j]) = DateOf(now[k])
       /\ previous_report_data[k] # None
       /\ Get(previous_report_data[k]).generatedAt > StartTime
       /\ reports[DateOf(now[k])].anomalies = report[k].anomalies
       /\ reports[DateOf(now[k])].anomalies # report[j].anomalies

\* ---------------------------------------------------------------------- C27
\* the stored reports none of which is later than r
IsLatest(r) ==
    /\ \E id \in DOMAIN reports : reports[id] = r
    /\ \A id \in DOMAIN reports : reports[id].generatedAt <= r.generatedAt

\* the query for the previous report answers with the stored report of the
\* greatest generatedAt, and with none only when no report is stored
C27_Query ==
    \A k \in Runs :
       report_pc[k] = "previous" /\ report_pc'[k] = "requests" =>
          IF DOMAIN reports = {}
             THEN previous_report_data'[k] = None
             ELSE /\ previous_report_data'[k] # None
                  /\ IsLatest(Get(previous_report_data'[k]))

\* the report a run saves is from then on the latest one
C27_SavedIsLatest ==
    \A k \in Runs :
       Saves(k) =>
          \A id \in DOMAIN reports' :
             id # DateOf(now[k]) =>
                reports'[id].generatedAt < reports'[DateOf(now[k])].generatedAt

\* the 'no baseline' message is in the list exactly when the run found no
\* report, and a run that started after a report was saved has a baseline
\* that is not older than that report
C27_Baseline ==
    \A k \in Runs :
       /\ Detected(k) =>
             (WithText(report[k].anomalies, NoBaselineMessage.text) # {}
                 <=> previous_report_data[k] = None)
       /\ report_pc[k] \notin {"start", "previous"} =>
             \A id \in DOMAIN reports :
                reports[id].generatedAt <= now[k] =>
                   /\ previous_report_data[k] # None
                   /\ Get(previous_report_data[k]).generatedAt >= reports[id].generatedAt

\* C27: the baseline of a run is the most recent report stored when the run
\* asks for it (the greatest generatedAt); the 'no baseline' message is
\* produced if and only if no report is stored then; a report that a run has
\* saved is the baseline of the run that comes next.
C27_MostRecentBaseline ==
    []C27_Baseline /\ [][C27_Query /\ C27_SavedIsLatest]_vars

\* with the report of the week before in the store, a run has saved and the
\* next run compares with that run's report
C27_Witness ==
    \E j, k \in Runs :
       /\ j # k /\ Saved(j) /\ Detected(k)
       /\ Cardinality(DOMAIN reports) >= 2
       /\ now[k] > now[j]
       /\ previous_report_data[k] = Some(reports[DateOf(now[j])])
       /\ WithText(report[k].anomalies, NoBaselineMessage.text) = {}

\* ---------------------------------------------------------------------- C28
\* handler r passed the validation
Accepted(r) == data[r] # NoData

\* the three parts of the cache are filled together
C28_Together ==
    /\ STYLES = None <=> COLORS = None
    /\ STYLES = None <=> SIZES = None

\* a handler that passed the validation passed it against the cache, and its
\* cost is the cached one, whatever the catalog collections hold by now
C28_FromCache ==
    \A r \in Handlers :
       Accepted(r) =>
          /\ STYLES # None
          /\ data[r].style \in Get(STYLES)
          /\ data[r].color \in Get(COLORS)
          /\ data[r].size \in DOMAIN Get(SIZES)
          /\ credit_cost[r] = Get(SIZES)[data[r].size]

\* the cache is filled from the collections as they are at that moment, and
\* once filled it does not change
C28_Frozen ==
    IF STYLES = None
       THEN \/ UNCHANGED cacheVars
            \/ /\ STYLES' = Some(catalog.styles)
               /\ COLORS' = Some(catalog.colors)
               /\ DOMAIN Get(SIZES') =
                     {x \in DOMAIN catalog.sizes : catalog.sizes[x].hasCredits}
               /\ \A x \in DOMAIN Get(SIZES') : Get(SIZES')[x] = catalog.sizes[x].credits
       ELSE UNCHANGED cacheVars

C29_PaymentRequired ==
    \A r \in Handlers :
       InsufficientResponse(r) =>
          /\ response[r].status = 402
          /\ r \notin Created
          /\ Deductions(r) = {}

\* ---------------------------------------------------------------------- C30
\* the deduct unit of handler r gives up
DeductAborts(r) == pc[r] = "deduct_commit" /\ pc'[r] = "done"

\* handler r passed the validation and answered with an internal error
\* without a simulator result
DeductAborted(r) ==
    /\ Accepted(r)
    /\ r \in Returned
    /\ response[r].status = 500
    /\ generation_result[r] = None

\* the unit gives up on the refused commit that uses up its attempts; the
\* handler then answers 500, has not called the simulator, and the store is
\* as it was; the unit is started by the handler once and run again only by
\* its own conflict retry; a handler that returned stays so
C30_Abort ==
    \A r \in Handlers :
       /\ DeductAborts(r) =>
             /\ Conflict(r)
             /\ attempts[r] + 1 = MaxAttempts
             /\ response'[r].status = 500
             /\ response'[r].message = "An unexpected internal error occurred."
             /\ generation_result'[r] = None
             /\ UNCHANGED storeVars
       /\ (pc[r] # "deduct_read" /\ pc'[r] = "deduct_read") =>
             \/ pc[r] = "start"
             \/ /\ pc[r] = "deduct_commit"
                /\ attempts'[r] = attempts[r] + 1
                /\ attempts'[r] < MaxAttempts
       /\ pc[r] = "done" => pc'[r] = "done" /\ generation_result'[r] = generation_result[r]

\* after the abort the store holds no request and no Deduction of that call,
\* and the balance of its user is the initial one less what the user's other
\* calls hold
C30_NoFootprint ==
    \A r \in Handlers :
       DeductAborted(r) =>
          /\ pc[r] = "done"
          /\ r \notin Created
          /\ Deductions(r) = {} /\ Refunds(r) = {}
          /\ credits[data[r].userId] =
                initialCredits[data[r].userId]
                - SumCost({x \in RequestsOf(data[r].userId) \ {r} : Held(x)})

\* C30: when the deduct unit aborts because its write-conflict retries are
\* used up, the handler returns an internal error (500), the simulator is not
\* invoked, and the store holds no balance change, no Deduction and no
\* request of that call; the handler does not retry the deduction.
C30_DeductAbort == []C30_NoFootprint /\ [][C30_Abort]_vars

\* a deduct unit gave up after the other handler of the user committed its
\* deduction and then its refund
C30_Witness ==
    \E r, x \in Handlers :
       /\ r # x
       /\ DeductAborted(r)
       /\ response[r].message = "An unexpected internal error occurred."
       /\ data[x].userId = data[r].userId
       /\ Refunds(x) # {}
       /\ credits[data[r].userId] = initialCredits[data[r].userId]

\* ---------------------------------------------------------------------- C31
\* what the log of user u adds up to: the balance the user started with,
\* less the Deductions, plus the Refunds
LogBalance(u) ==
    initialCredits[u] - SumCredits(transactions[u], "deduction")
                      + SumCredits(transactions[u], "refund")

\* in every state the balance of every user is what the user's log adds up to
C31_Agree == \A u \in Users : credits[u] = LogBalance(u)

\* a step changes the balance of a user exactly when it appends one entry to
\* the user's log, and the change is the amount of that entry: down for a
\* Deduction, up for a Refund; a step that gives a unit up changes neither
C31_WrittenTogether ==
    /\ \A u \in Users :
          LET log == transactions[u]
              log1 == transactions'[u]
          IN  IF credits'[u] # credits[u] \/ log1 # log
                 THEN /\ Len(log1) = Len(log) + 1
                      /\ SubSeq(log1, 1, Len(log)) = log
                      /\ LET e == log1[Len(log1)]
                         IN  credits'[u] - credits[u] =
                                IF e.type = "deduction" THEN 0 - e.credits ELSE e.credits
                 ELSE TRUE
    /\ \A r \in Handlers :
          (pc[r] \in {"deduct_commit", "refund_commit"} /\ Stepped(r) /\ Conflict(r))
             => UNCHANGED << credits, transactions >>

\* C31: balance and log agree in every reachable state: for every user the
\* balance is the initial balance minus the credits of the user's Deductions
\* plus the credits of the user's Refunds; every step writes a balance change
\* and its log entry together, under any interleaving of the handlers and
\* after any unit that failed.
C31_BalanceAgreesWithLog == []C31_Agree /\ [][C31_WrittenTogether]_vars

\* a user whose log holds a Deduction that stands, and a Deduction with its
\* Refund, after a unit of another call of the user was refused
C31_Witness ==
    \E r1, r2 \in Created :
        /\ r1 # r2
        /\ generationRequests[r1].userId = generationRequests[r2].userId
        /\ Refunds(r1) # {}
        /\ Refunds(r2) = {}
        /\ Len(transactions[generationRequests[r1].userId]) = 3
        /\ attempts[r1] + attempts[r2] > 0
        /\ credits[generationRequests[r1].userId]
              = initialCredits[generationRequests[r1].userId] - generationRequests[r2].cost

\* ---------------------------------------------------------------------- C32
\* the price of a size in the cache of the process
CachedCost(size) == Get(SIZES)[size]

\* every entry of every log
LogEntries == {e \in Users \X (1..(NumHandlers * 2)) : e[2] \in DOMAIN transactions[e[1]]}

Contend(r1, r2, u) ==
    /\ r1 # r2
    /\ Accepted(r1) /\ Accepted(r2)
    /\ data[r1].userId = u /\ data[r2].userId = u
    /\ \A x \in Handlers \ {r1, r2} : ~(Accepted(x) /\ data[x].userId = u)
    /\ credit_cost[r1] + credit_cost[r2] <= initialCredits[u]

\* C33: no lost update under contention: when two createGenerationRequest
\* handlers of one user run and the balance covers both costs, then, however
\* their units interleave, neither is rejected for insufficient credits, and
\* once both have returned with no Refund committed both deductions have
\* committed (a refused unit was run again): the balance is the initial one
\* minus both costs and the log holds one Deduction per request.
C33_NoLostUpdate ==
    \A r1, r2 \in Handlers : \A u \in Users :
        Contend(r1, r2, u) =>
           /\ ~InsufficientResponse(r1)
           /\ (/\ pc[r1] = "done" /\ pc[r2] = "done"
               /\ SumCredits(transactions[u], "refund") = 0)
              => /\ r1 \in Created /\ r2 \in Created
                 /\ Cardinality(Deductions(r1)) = 1
                 /\ Cardinality(Deductions(r2)) = 1
                 /\ Len(transactions[u]) = 2
                 /\ credits[u] = initialCredits[u] - credit_cost[r1] - credit_cost[r2]

\* both calls of a user returned their image, their Deductions committed one
\* right after the other and used the balance up
C33_Witness ==
    \E r1, r2 \in Handlers :
        /\ Contend(r1, r2, "u1")
        /\ credit_cost[r1] # credit_cost[r2]
        /\ r1 \in Returned /\ r2 \in Returned
        /\ response[r1].status = 200 /\ response[r2].status = 200
        /\ generationRequests[r1].createdAt = 1
        /\ generationRequests[r2].createdAt = 2
        /\ credits["u1"] = 0

\* ---------------------------------------------------------------------- C34
\* C34: a getUserCredits response is a consistent snapshot even when a
\* createGenerationRequest of the same user runs concurrently: the returned
\* currentCredits equals the user's initial balance minus the Deductions plus
\* the Refunds of the returned transactions list.
C34_ConsistentSnapshot ==
    (credits_response # None /\ Get(credits_response).status = 200) =>
        LET resp == Get(credits_response)
        IN  resp.currentCredits =
               initialCredits[user_id]
               - SumCredits(resp.transactions, "deduction")
               + SumCredits(resp.transactions, "refund")

\* ---------------------------------------------------------------------- C35
\* C35: the server-controlled fields of a stored GenerationRequest cannot be
\* set by the client payload: whatever further fields the body carries (cost,
\* status, createdAt, imageUrl), the stored cost is the catalog cost, the
\* status of a request whose handler has not seen the simulator's result is
\* Pending, createdAt is the time of the commit that created it, and the
\* request carries an imageUrl only when its status is Completed, and then
\* the URL the simulator returned.
C35_ServerControlled ==
    \A r \in Created :
        LET d == generationRequests[r]
        IN  /\ d.cost = CachedCost(d.size)
            /\ d.status \in {"pending", "completed", "failed"}
            /\ pc[r] = "simulate" => d.status = "pending"
            /\ d.createdAt \in 1..clock
            /\ d.imageUrl # Missing =>
                  /\ d.status = "completed"
                  /\ d.imageUrl = PLACEHOLDER_URLS[d.model]

\* ---------------------------------------------------------------------- C36
\* C36: every createGenerationRequest invocation ends by returning an HTTP
\* response with status 200, 400, 404 or 500 and lets no exception escape,
\* for every request body, also one that is not valid JSON or is the JSON
\* value null; a call that did not get past the parsing of its body is
\* answered 400 and the store holds nothing of it.
C36_AlwaysResponds ==
    \A r \in Handlers :
        pc[r] = "done" =>
           /\ r \in Returned
           /\ response[r].status \in {200, 400, 404, 500}
           /\ (~Accepted(r) /\ response[r].status # 404) =>
                 /\ response[r].status = 400
                 /\ r \notin Created
                 /\ Deductions(r) = {}

\* ---------------------------------------------------------------------- C37
\* a check other than the success-rate drop triggers
OtherCondition(current, previous) ==
    \/ SpikeCondition(current.totalRequests, previous.totalRequests)
    \/ SpikeCondition(current.totalCreditsSpent, previous.totalCreditsSpent)
    \/ \E name \in DOMAIN current.byModel :
          FailureCondition(current.byModel, previous.byModel, name)
    \/ \E name \in DOMAIN current.byStyle :
          FailureCondition(current.byStyle, previous.byStyle, name)
    \/ \E name \in DOMAIN current.bySize :
          FailureCondition(current.bySize, previous.bySize, name)

\* C37: a reporting week without in-window requests raises no
\* success-rate-drop anomaly: when the current report has totalRequests = 0
\* (so successRate = 0), a previous report exists with successRate > 0 and no
\* other check triggered, the anomalies list is exactly the single 'No
\* significant anomalies detected this week.' message.
C37_EmptyWeekQuiet ==
    \A k \in Runs :
        (/\ Detected(k)
         /\ previous_report_data[k] # None
         /\ report[k].totalRequests = 0
         /\ Get(previous_report_data[k]).successRate.num > 0
         /\ ~OtherCondition(report[k], Get(previous_report_data[k])))
        => report[k].anomalies = << NoAnomaliesMessage >>

\* ---------------------------------------------------------------------- C38
\* the sum of one count over the keys S of a map
RECURSIVE SumOver(_, _, _)
SumOver(group, count, S) ==
    IF S = {} THEN 0
    ELSE LET v == CHOOSE x \in S : TRUE
         IN  group[v][count] + SumOver(group, count, S \ {v})

\* the totals of a map add up to totalRequests, every entry counts at least
\* one request and no more Completed and Failed ones than requests
C38_Map(rep, group) ==
    /\ SumOver(group, "total", DOMAIN group) = rep.totalRequests
    /\ \A v \in DOMAIN group :
          /\ group[v].total >= 1
          /\ group[v].completed >= 0 /\ group[v].failed >= 0
          /\ group[v].completed + group[v].failed <= group[v].total

C38_Structure(rep) ==
    /\ C38_Map(rep, rep.byModel)
    /\ C38_Map(rep, rep.byStyle)
    /\ C38_Map(rep, rep.bySize)
    /\ SumOver(rep.byModel, "completed", DOMAIN rep.byModel)
          = SumOver(rep.byStyle, "completed", DOMAIN rep.byStyle)
    /\ SumOver(rep.byStyle, "completed", DOMAIN rep.byStyle)
          = SumOver(rep.bySize, "completed", DOMAIN rep.bySize)
    /\ rep.totalCreditsSpent >= 0 /\ rep.totalCreditsRefunded >= 0

CatalogValid(body) ==
    /\ Missing \notin {body.userId, body.model, body.style, body.color, body.size}
    /\ body.style \in catalog.styles
    /\ body.color \in catalog.colors
    /\ body.size \in DOMAIN catalog.sizes
    /\ catalog.sizes[body.size].hasCredits
    /\ body.model \in ImageModels

\* C39: a failed first Catalog load is not permanent: once the store is
\* readable, a createGenerationRequest of the same process loads the Catalog
\* again, so that the validation of a call made then accepts a body with
\* catalog-valid style, color and size.
C39_Recovers ==
    catalog.readable =>
       \A body \in Bodies :
          CatalogValid(body) => ValidationError(body, config_loaded) = ""

====
